---- MODULE Spec2Model ----
(***************************************************************************)
(* APLITE backend: issuance and resolution of payment identifiers (UPIs).  *)
(*                                                                         *)
(* Strings are sequences of character codes (ASCII).  The store is the     *)
(* PostgreSQL database reached through app/db/queries.py; every table the  *)
(* resolution path reads is a sequence of rows indexed by its primary key. *)
(***************************************************************************)
EXTENDS Integers, Sequences, FiniteSets, TLC

(***************************************************************************)
(* Bounds of the model.                                                    *)
(***************************************************************************)
MaxUsers == 2       \* users that sign up
MaxOrgs == 1        \* organizations onboarded under Spec
MaxOrgsCross == 2   \* organizations onboarded under SpecCross
MaxAccounts == 3    \* payment accounts, the ones being created included
MaxChildren == 1    \* child identifiers
MaxInflight == 2    \* create_account requests between their read and their insert
MaxIndexAccounts == 100  \* payment accounts of the organization under SpecIndex

(***************************************************************************)
(* Characters.                                                             *)
(***************************************************************************)
ChA == 65
Ch0 == 48
Cha == 97
Chz == 122
ChDash == 45

Upper == 65..90
Digits == 48..57
\* utils/upi.py: ALPHABET = string.ascii_uppercase + string.digits
ALPHABET == Upper \cup Digits
CORE_SEGMENT_LENGTH == 4
NAMESPACE_LENGTH == 2
PAYMENT_INDEX_LENGTH == 2
SIGNATURE_LENGTH == 6
UPI_LENGTH == NAMESPACE_LENGTH + PAYMENT_INDEX_LENGTH + CORE_SEGMENT_LENGTH + SIGNATURE_LENGTH

\* "CORE-"
CorePrefix == <<67, 79, 82, 69, 45>>

\* str.upper() on one character
UpperChar(c) == IF c >= Cha /\ c <= Chz THEN c - 32 ELSE c
\* str.upper()
StrUpper(s) == [i \in 1..Len(s) |-> UpperChar(s[i])]

\* s[a:b] with 0-based half-open Python slice bounds, clipped to the string
Slice(s, a, b) == SubSeq(s, a + 1, IF b > Len(s) THEN Len(s) ELSE b)

\* decimal digits of a natural number: str(n)
RECURSIVE StrInt(_)
StrInt(n) == IF n < 10 THEN <<Ch0 + n>> ELSE StrInt(n \div 10) \o <<Ch0 + (n % 10)>>

\* f"{n}": no padding
FmtUnpadded(n) == StrInt(n)

\* f"{n:02d}": zero-padded to at least two digits, longer when n >= 100
Fmt02d(n) == IF n < 10 THEN <<Ch0, Ch0 + n>> ELSE StrInt(n)

\* int(s) for a string of decimal digits
RECURSIVE IntOfDigits(_)
IntOfDigits(s) ==
  IF Len(s) = 0 THEN 0
  ELSE 10 * IntOfDigits(SubSeq(s, 1, Len(s) - 1)) + (s[Len(s)] - Ch0)

\* "".join(ch for ch in s if ch in ALPHABET)
RECURSIVE FilterAlphabet(_)
FilterAlphabet(s) ==
  IF Len(s) = 0 THEN <<>>
  ELSE (IF s[1] \in ALPHABET THEN <<s[1]>> ELSE <<>>) \o FilterAlphabet(Tail(s))

\* index of the first '-' in s, 0 when there is none
RECURSIVE FirstDash(_, _)
FirstDash(s, i) ==
  IF i > Len(s) THEN 0 ELSE IF s[i] = ChDash THEN i ELSE FirstDash(s, i + 1)

\* s.split("-", 1)[-1]
AfterFirstDash(s) ==
  LET d == FirstDash(s, 1) IN IF d = 0 THEN s ELSE SubSeq(s, d + 1, Len(s))

\* str.ljust(width, "0"): pads on the right
RECURSIVE LJust0(_, _)
LJust0(s, width) == IF Len(s) >= width THEN s ELSE LJust0(s \o <<Ch0>>, width)

_extract_core_segment(core_entity_id) ==
  LET segment == FilterAlphabet(StrUpper(AfterFirstDash(core_entity_id)))
  IN  IF Len(segment) < CORE_SEGMENT_LENGTH
      THEN LJust0(segment, CORE_SEGMENT_LENGTH)
      ELSE Slice(segment, 0, CORE_SEGMENT_LENGTH)

(***************************************************************************)
(* HMAC-SHA256 under the server secret, then base32, then truncation.      *)
(* The keyed hash is modelled by a keyed polynomial hash of the same       *)
(* payload bytes: deterministic, and every single-byte change of the       *)
(* payload changes the digest.  The two-character namespace keeps only     *)
(* ten bits of it, so different users can share a namespace.               *)
(***************************************************************************)
\* os.getenv("UPI_SECRET_KEY"), read by _load_secret on every call
VARIABLE UPI_SECRET_KEY

\* the secret the service is deployed with, and the one a later deployment sets
SecretKey == 7919
RotatedSecretKey == 8975

_load_secret == UPI_SECRET_KEY
\* os.getenv(SECRET_ENV_VAR, "") of a variable that is not set
NoSecret == 0
\* _load_secret raises RuntimeError("Missing secret key for UPI generation")
LoadSecretFails == UPI_SECRET_KEY = NoSecret
HashPrimeA == 32749
HashPrimeB == 32719

RECURSIVE KeyedHash(_, _, _, _)
KeyedHash(payload, acc, mult, modulus) ==
  IF Len(payload) = 0 THEN acc
  ELSE KeyedHash(Tail(payload), (acc * mult + payload[1] + 1) % modulus, mult, modulus)

\* one symbol of base64.b32encode: A-Z then 2-7
B32Char(v) == IF v < 26 THEN ChA + v ELSE 50 + (v - 26)

\* three base32 symbols of a 15-bit value
B32x3(v) == <<B32Char((v \div 1024) % 32), B32Char((v \div 32) % 32), B32Char(v % 32)>>

_namespace_for_user(user_id) ==
  LET digest == KeyedHash(StrInt(user_id), _load_secret % HashPrimeA, 31, HashPrimeA)
  IN  Slice(B32x3(digest), 0, NAMESPACE_LENGTH)

_signature(namespace, core_segment, payment_index) ==
  LET payload == namespace \o core_segment \o Fmt02d(payment_index)
      d1 == KeyedHash(payload, _load_secret % HashPrimeA, 31, HashPrimeA)
      d2 == KeyedHash(payload, _load_secret % HashPrimeB, 37, HashPrimeB)
  IN  Slice(B32x3(d1) \o B32x3(d2), 0, SIGNATURE_LENGTH)

\* an issuance that takes the namespace of another user than the owner
generate_upi_foreign_namespace(core_entity_id, payment_index, user_id) ==
  LET namespace == _namespace_for_user(IF payment_index = 0 THEN user_id ELSE 49 - user_id)
      core_segment == _extract_core_segment(core_entity_id)
      signature == _signature(namespace, core_segment, payment_index)
  IN  namespace \o Fmt02d(payment_index) \o core_segment \o signature

generate_upi(core_entity_id, payment_index, user_id) ==
  LET namespace == _namespace_for_user(user_id)
      core_segment == _extract_core_segment(core_entity_id)
      signature == _signature(namespace, core_segment, payment_index)
  IN  namespace \o Fmt02d(payment_index) \o core_segment \o signature

\* a format check that looks at the length only
validate_upi_length(upi) == Len(upi) = UPI_LENGTH

validate_upi_format(upi) ==
  Len(upi) = UPI_LENGTH /\ \A i \in 1..Len(upi) : upi[i] \in ALPHABET

\* a window check that looks at the last character of the window only
PaymentIndexParsesLastDigit(upi) ==
  upi[NAMESPACE_LENGTH + PAYMENT_INDEX_LENGTH] \in Digits

\* int() of the payment-index window raises ValueError on a non-digit
PaymentIndexParses(upi) ==
  \A i \in (NAMESPACE_LENGTH + 1)..(NAMESPACE_LENGTH + PAYMENT_INDEX_LENGTH) : upi[i] \in Digits

\* parse_upi raises ValueError("Invalid UPI format")
ParseFails(upi) == ~validate_upi_format(upi) \/ ~PaymentIndexParses(upi)

parse_upi(upi) ==
  LET core_segment_start == NAMESPACE_LENGTH + PAYMENT_INDEX_LENGTH
      core_segment_end == core_segment_start + CORE_SEGMENT_LENGTH
  IN  [namespace |-> Slice(upi, 0, NAMESPACE_LENGTH),
       payment_index |-> IntOfDigits(Slice(upi, NAMESPACE_LENGTH, NAMESPACE_LENGTH + PAYMENT_INDEX_LENGTH)),
       core_entity_id |-> CorePrefix \o Slice(upi, core_segment_start, core_segment_end),
       signature |-> Slice(upi, core_segment_end, Len(upi))]

verify_upi(upi, user_id) ==
  IF ParseFails(upi) THEN FALSE
  ELSE LET parsed == parse_upi(upi)
           expected_ns == _namespace_for_user(user_id)
       IN  IF parsed.namespace # expected_ns THEN FALSE
           ELSE LET core_segment == _extract_core_segment(parsed.core_entity_id)
                    expected_sig == _signature(parsed.namespace, core_segment, parsed.payment_index)
                IN  expected_sig = parsed.signature


(***************************************************************************)
(* The store.                                                              *)
(***************************************************************************)
\* users.id values of the accounts that can sign up; 42 and 43 share a namespace
UserIds == {7, 42, 43}
\* the four random characters drawn by generate_core_entity_id: "AB12", "AB13"
CoreSegments == {<<65, 66, 49, 50>>, <<65, 66, 49, 51>>}
\* the characters drawn for a master identifier at signup: "AB12"
MasterCoreSegments == {<<65, 66, 49, 50>>}
\* two of the rails of PaymentRail
Rails == {"ACH", "SWIFT"}
NoUpi == <<>>

\* the fields create_payment_account encrypts into the enc map (queries.py:268-278)
sensitive_fields ==
  {"ach_routing", "ach_account", "wire_routing", "wire_account", "bank_address",
   "swift_bic", "iban", "bank_country", "bank_city"}

\* Literal["ACH", "WIRE_DOM", "SWIFT"] (resolve.py:24)
PaymentRails == {"ACH", "WIRE_DOM", "SWIFT"}

\* the sensitive fields a payload of the rail's own form carries: the ones
\* complete_onboarding_tx passes for the rail (queries.py:1897-1916)
RailOwnFields(rail) ==
  IF rail = "ACH" THEN {"ach_routing", "ach_account"}
  ELSE IF rail = "WIRE_DOM" THEN {"wire_routing", "wire_account"}
  ELSE {"swift_bic", "iban"}

\* the sensitive fields the coordinates of a rail are read from (resolve.py:190-211)
RailCoordinateFields(rail) ==
  IF rail = "ACH" THEN {"ach_routing", "ach_account"}
  ELSE IF rail = "WIRE_DOM" THEN {"wire_routing", "wire_account", "bank_address"}
  ELSE {"swift_bic", "iban", "bank_address", "bank_country", "bank_city"}

(***************************************************************************)
(* Field encryption (app/utils/crypto.py): AES-GCM under DATA_ENC_KEY.     *)
(* A ciphertext is the pair of the key it was sealed under and the value   *)
(* sealed; a value is written as the name of the field it belongs to.      *)
(***************************************************************************)
\* os.getenv("DATA_ENC_KEY"), read by _load_key on every call
VARIABLE DATA_ENC_KEY

\* the key the service is deployed with, and the one a later deployment sets
EncKey == 11
RotatedEncKey == 12
\* os.getenv(..., "") of a variable that is not set
NoKey == 0

\* _load_key raises RuntimeError("Missing encryption key")
LoadKeyFails == DATA_ENC_KEY = NoKey

\* the values a call of secrets.token_bytes(12) can return (crypto.py:40)
VARIABLE token_bytes

\* where no property reads the nonces, one value stands for all of them
OneNonce == {0}
MaxNonces == 2   \* byte strings the generator can return under SpecNonce
Nonces == 1..MaxNonces

\* encrypt_value: (nonce_b64, ciphertext_b64), stored as {"n": ..., "c": ...};
\* nonce is the value its call of secrets.token_bytes returned
encrypt_value(value, nonce) == [n |-> nonce, c |-> [key |-> DATA_ENC_KEY, value |-> value]]

\* the outcomes of the calls of secrets.token_bytes in one request that
\* encrypts the sensitive fields among fields, one call per field
Draws(fields) == [fields \cap sensitive_fields -> token_bytes]

\* decrypt_value raises: no key, or AESGCM.decrypt rejects the tag (InvalidTag)
DecryptFails(blob) == LoadKeyFails \/ blob.c.key # DATA_ENC_KEY

decrypt_value(blob) == blob.c.value

\* the enc map create_payment_account builds from the payload (queries.py:279-286)
EncryptFields(fields, draws) ==
  [field \in fields \cap sensitive_fields |-> encrypt_value(field, draws[field])]

\* the row create_payment_account inserts (queries.py:288-309); columns: the
\* sensitive fields written to a column of their own
PaymentAccountRow(org_id, user_id, payment_index, rail, fields, draws) ==
  [org_id |-> org_id, user_id |-> user_id, payment_index |-> payment_index,
   rail |-> rail, status |-> "active", enc |-> EncryptFields(fields, draws), columns |-> {}]

\* create_payment_account raises: a field to encrypt and no key
EncryptFails(fields) == LoadKeyFails /\ fields \cap sensitive_fields # {}

VARIABLES
  users,                \* users table: id -> [present, master_upi]
  organizations,        \* organizations table, row id = index
  onboarding_sessions,  \* onboarding_sessions table, row id = index
  saved_order,          \* session ids ordered by last_saved_at, latest last
  payment_accounts,     \* payment_accounts table, row id = index
  child_upis,           \* child_upis table, row id = index
  identity_verifications, \* identity_verifications table, row id = index
  inflight,             \* create_account requests between index read and insert
  updating,             \* update_account requests between lock check and UPDATE
  resp                  \* the response of the latest request

\* the in-process rate limiter (utils/ratelimit.py)
VARIABLES
  _buckets,             \* _FixedWindowStore._buckets: key -> <<window_id, count>>
  _last_prune,          \* _FixedWindowStore._last_prune
  now,                  \* int(time.time())
  calls,                \* per thread: its call of check between time read and return
  allowed               \* history: calls allowed per <<key, window_id>>

\* one-time codes and login sessions (queries.py:874-949)
VARIABLES
  otps,                 \* otps table: record id -> row
  sessions,             \* sessions table: rows, the deleted ones marked
  verifying,            \* per thread: its verification between get_otp and consume_otp
  granted               \* history: verifications granted per otp record

limiter == <<_buckets, _last_prune, now, calls, allowed>>
login == <<otps, sessions, verifying, granted>>

\* the worker threads that serve requests concurrently
MaxThreads == 2
Threads == 1..MaxThreads

\* SESSION_TOKEN_HMAC_KEY of the deployment (security.py:45)
SessionHmacKey == 4242
\* hash_session_token (security.py:54-60): keyed, never the token itself
hash_session_token(token) == 1000 + ((SessionHmacKey + 7 * token) % 1000)

\* generate_session_token (security.py:35-36): a token no session had before,
\* the k-th token issued to user u is 10 * u + k
FreshToken(rows, user_id) ==
  10 * user_id + Cardinality({r \in rows : r.user_id = user_id}) + 1

\* create_session (queries.py:874-883) for the token generate_session_token drew
create_session(rows, user_id) ==
  rows \cup {[token |-> hash_session_token(FreshToken(rows, user_id)), user_id |-> user_id,
              created_at |-> now, deleted |-> FALSE]}

vars == <<UPI_SECRET_KEY, DATA_ENC_KEY, token_bytes, users, organizations, onboarding_sessions, saved_order,
          payment_accounts, child_upis, identity_verifications, inflight, updating, resp,
          limiter, login>>
store == <<users, organizations, onboarding_sessions, saved_order, payment_accounts,
           child_upis, identity_verifications, inflight>>

NoResp == [op |-> "none"]

OrgIdsNow == 1..Len(organizations)
SessionIdsNow == 1..Len(onboarding_sessions)
AccountIdsNow == 1..Len(payment_accounts)
ChildIdsNow == 1..Len(child_upis)

\* the last element of a non-empty sequence of ids
LastOf(s) == s[Len(s)]

\* UPDATE ... last_saved_at = now(): the session becomes the latest saved
Touch(order, sid) == SelectSeq(order, LAMBDA x : x # sid) \o <<sid>>

MaxOf(S) == CHOOSE m \in S : \A x \in S : x <= m

(***************************************************************************)
(* Queries (app/db/queries.py).  A query that ends in fetchone() over rows *)
(* the store does not keep unique returns any of the matching rows: the    *)
(* operators below give the set of rows it can return, 0 standing for None.*)
(***************************************************************************)
_next_payment_index_for_org(org_id) ==
  LET idx == {payment_accounts[a].payment_index : a \in {b \in AccountIdsNow : payment_accounts[b].org_id = org_id}}
  IN  (IF idx = {} THEN 0 ELSE MaxOf(idx)) + 1

is_user_verified(user_id) ==
  \E s \in SessionIdsNow :
    onboarding_sessions[s].user_id = user_id /\ onboarding_sessions[s].state = "VERIFIED"

\* a users table that holds no row for the id
get_user_by_id_absent(user_id) == 0

get_user_by_id(user_id) ==
  IF user_id \in UserIds /\ users[user_id].present THEN user_id ELSE 0

\* a lookup that sees active rows only
get_active_child_upi_by_value(upi) ==
  LET rows == {c \in ChildIdsNow : child_upis[c].upi = upi /\ child_upis[c].status = "active"}
  IN  IF rows = {} THEN {0} ELSE rows

\* a lookup that yields to an organization holding the same string
get_child_upi_unless_organization(upi) ==
  LET rows == {c \in ChildIdsNow : child_upis[c].upi = upi}
  IN  IF rows = {} \/ \E o \in OrgIdsNow : organizations[o].upi = upi THEN {0} ELSE rows

get_child_upi_by_value(upi) ==
  LET rows == {c \in ChildIdsNow : child_upis[c].upi = upi}
  IN  IF rows = {} THEN {0} ELSE rows

get_organization_by_id(org_id) == IF org_id \in OrgIdsNow THEN org_id ELSE 0

get_organization(org_id, user_id) ==
  IF org_id \in OrgIdsNow /\ organizations[org_id].user_id = user_id THEN org_id ELSE 0

get_organization_by_upi(upi) ==
  LET rows == {o \in OrgIdsNow : organizations[o].upi = upi}
  IN  IF rows = {} THEN {0} ELSE rows

\* list_organizations_for_user(user_id)[0]: the most recently created one
LatestOrgOfUser(user_id) ==
  LET rows == {o \in OrgIdsNow : organizations[o].user_id = user_id}
  IN  IF rows = {} THEN 0 ELSE MaxOf(rows)

get_payment_account_by_id(account_id) ==
  IF account_id \in AccountIdsNow THEN account_id ELSE 0

get_payment_account_by_org_and_index(org_id, payment_index, rail) ==
  LET rows == {a \in AccountIdsNow :
                 /\ payment_accounts[a].org_id = org_id
                 /\ payment_accounts[a].payment_index = payment_index
                 /\ payment_accounts[a].rail = rail
                 /\ payment_accounts[a].status # "disabled"}
  IN  IF rows = {} THEN {0} ELSE rows

get_latest_onboarding_session(user_id) ==
  LET mine == SelectSeq(saved_order, LAMBDA s : onboarding_sessions[s].user_id = user_id)
  IN  IF Len(mine) = 0 THEN 0 ELSE LastOf(mine)

get_latest_onboarding_session_by_org(org_id) ==
  LET mine == SelectSeq(saved_order, LAMBDA s : onboarding_sessions[s].org_id = org_id)
  IN  IF Len(mine) = 0 THEN 0 ELSE LastOf(mine)

get_active_onboarding_session(user_id) ==
  LET mine == SelectSeq(saved_order, LAMBDA s : onboarding_sessions[s].user_id = user_id
                                               /\ ~onboarding_sessions[s].completed)
  IN  IF Len(mine) = 0 THEN 0 ELSE LastOf(mine)

get_onboarding_payment_account(session_id) == onboarding_sessions[session_id].payment_account_id

\* set_organization_upi: the organizations row after the update
set_organization_upi(orgs, org_id, upi, verification_status, status) ==
  [orgs EXCEPT ![org_id].upi = upi,
               ![org_id].verification_status = verification_status,
               ![org_id].status = status]

\* set_organization_upi: "update payment_accounts set status='active' where id=..."
ActivateAccount(accts, account_id) ==
  IF account_id \in 1..Len(accts) THEN [accts EXCEPT ![account_id].status = "active"] ELSE accts

set_organization_verification_status(orgs, org_id, verification_status, status) ==
  [orgs EXCEPT ![org_id].verification_status = verification_status,
               ![org_id].status = status]

(***************************************************************************)
(* POST /api/resolve (app/routes/resolve.py).                              *)
(* A response records the terminal state of the request, the rows it       *)
(* reached and the values verify_upi recomputed while serving it.          *)
(***************************************************************************)
NoCheck == [done |-> FALSE, ok |-> FALSE, expected_ns |-> <<>>, expected_sig |-> <<>>]

\* an all-or-nothing decryption: one field that fails leaves no field decrypted
DecryptAllOrNothing(enc_block, fields) ==
  IF \E field \in fields : DecryptFails(enc_block[field]) THEN <<>>
  ELSE [field \in fields |-> decrypt_value(enc_block[field])]

\* the loop of _decrypt_payment_account over the entries of the enc map
\* (queries.py:198-202): the values it has put into the row, by field; an entry
\* whose decrypt_value raises is skipped
RECURSIVE DecryptLoop(_, _)
DecryptLoop(enc_block, fields) ==
  IF fields = {} THEN <<>>
  ELSE LET field == CHOOSE f \in fields : TRUE
           rest == DecryptLoop(enc_block, fields \ {field})
       IN  IF DecryptFails(enc_block[field]) THEN rest
           ELSE (field :> decrypt_value(enc_block[field])) @@ rest

\* _decrypt_payment_account (queries.py:191-204): the fields of the row that it
\* decrypted, each entry of the enc map being tried whatever the rail
_decrypt_payment_account(account) ==
  DOMAIN DecryptLoop(payment_accounts[account].enc, DOMAIN payment_accounts[account].enc)

\* account.get(field) on the row _decrypt_payment_account returned: the decrypted
\* value, written as the name of its field, or None when the row has no such key
AccountGet(account, field) ==
  LET decrypted == DecryptLoop(payment_accounts[account].enc, DOMAIN payment_accounts[account].enc)
  IN  IF field \in DOMAIN decrypted THEN decrypted[field] ELSE "None"

\* value or ""
OrEmpty(value) == IF value = "None" THEN "" ELSE value

\* a child branch that returns the ACH record for every rail
ChildCoordinatesAchShape(rail, account) ==
  [routing_number |-> AccountGet(account, "ach_routing"),
   account_number |-> AccountGet(account, "ach_account"),
   bank_name |-> "bank_name"]

\* the coordinates built by the child branch (resolve.py:190-211)
ChildCoordinates(rail, account) ==
  IF rail = "ACH"
  THEN [routing_number |-> AccountGet(account, "ach_routing"),
        account_number |-> AccountGet(account, "ach_account"),
        bank_name |-> "bank_name"]
  ELSE IF rail = "WIRE_DOM"
  THEN [routing_number |-> AccountGet(account, "wire_routing"),
        account_number |-> AccountGet(account, "wire_account"),
        bank_name |-> "bank_name",
        bank_address |-> OrEmpty(AccountGet(account, "bank_address"))]
  ELSE [swift_bic |-> AccountGet(account, "swift_bic"),
        iban |-> AccountGet(account, "iban"),
        bank_name |-> "bank_name",
        bank_address |-> OrEmpty(AccountGet(account, "bank_address")),
        bank_country |-> AccountGet(account, "bank_country"),
        bank_city |-> AccountGet(account, "bank_city")]

\* the coordinates built by the primary branch (resolve.py:258-279)
PrimaryCoordinates(rail, account) ==
  IF rail = "ACH"
  THEN [routing_number |-> AccountGet(account, "ach_routing"),
        account_number |-> AccountGet(account, "ach_account"),
        bank_name |-> "bank_name"]
  ELSE IF rail = "WIRE_DOM"
  THEN [routing_number |-> AccountGet(account, "wire_routing"),
        account_number |-> AccountGet(account, "wire_account"),
        bank_name |-> "bank_name",
        bank_address |-> OrEmpty(AccountGet(account, "bank_address"))]
  ELSE [swift_bic |-> AccountGet(account, "swift_bic"),
        iban |-> AccountGet(account, "iban"),
        bank_name |-> "bank_name",
        bank_address |-> OrEmpty(AccountGet(account, "bank_address")),
        bank_country |-> AccountGet(account, "bank_country"),
        bank_city |-> AccountGet(account, "bank_city")]

\* decrypted: the fields decrypted for the account the response carries;
\* coordinates: the sensitive fields whose values the response returns;
\* coordinate_record: the "coordinates" object of the response body
Response(caller, upi, rail, outcome, http, branch, org, account, check) ==
  [op |-> "resolve", caller |-> caller, upi |-> upi, rail |-> rail,
   outcome |-> outcome, http |-> http, branch |-> branch,
   org |-> org, account |-> account, check |-> check,
   decrypted |-> IF account = 0 THEN {} ELSE _decrypt_payment_account(account),
   coordinates |-> IF outcome = "RESOLVED"
                   THEN RailCoordinateFields(rail) \cap _decrypt_payment_account(account)
                   ELSE {},
   coordinate_record |-> IF outcome # "RESOLVED" THEN <<>>
                         ELSE IF branch = "child" THEN ChildCoordinates(rail, account)
                         ELSE PrimaryCoordinates(rail, account)]

\* verify_upi raises: the string parses and _load_secret raises RuntimeError,
\* which no handler of resolve_upi or lookup_upi catches (500)
VerifyRaises(upi) == ~ParseFails(upi) /\ LoadSecretFails

\* verify_upi as executed inside one request: its verdict and what it recomputed
VerifyInRequest(upi, user_id) ==
  LET parsed == parse_upi(upi)
      expected_ns == _namespace_for_user(user_id)
      nsOk == ~ParseFails(upi) /\ parsed.namespace = expected_ns
  IN  [done |-> TRUE,
       ok |-> verify_upi(upi, user_id),
       expected_ns |-> expected_ns,
       expected_sig |-> IF nsOk
                        THEN _signature(parsed.namespace,
                                        _extract_core_segment(parsed.core_entity_id),
                                        parsed.payment_index)
                        ELSE <<>>]

\* a child branch that trusts the stored row and skips verify_upi
ResolveChildBranchUnverified(caller, upi, rail, child) ==
  IF child_upis[child].status # "active"
  THEN Response(caller, upi, rail, "GONE", 410, "child", 0, 0, NoCheck)
  ELSE LET org == get_organization_by_id(child_upis[child].org_id)
           account == get_payment_account_by_id(child_upis[child].payment_account_id) IN
    IF org = 0 \/ account = 0
    THEN Response(caller, upi, rail, "NOT_FOUND", 404, "child", 0, 0, NoCheck)
    ELSE IF payment_accounts[account].rail # rail
    THEN Response(caller, upi, rail, "NOT_FOUND", 404, "child", org, 0, NoCheck)
    ELSE Response(caller, upi, rail, "RESOLVED", 200, "child", org, account, NoCheck)

\* a child branch that returns the linked account whatever its rail
ResolveChildBranchAnyRail(caller, upi, rail, child) ==
  IF child_upis[child].status # "active"
  THEN Response(caller, upi, rail, "GONE", 410, "child", 0, 0, NoCheck)
  ELSE LET org == get_organization_by_id(child_upis[child].org_id) IN
    IF org = 0
    THEN Response(caller, upi, rail, "NOT_FOUND", 404, "child", 0, 0, NoCheck)
    ELSE LET found == get_user_by_id(organizations[org].user_id)
             owner == IF found = 0 THEN caller ELSE found IN
      IF ~is_user_verified(owner)
      THEN Response(caller, upi, rail, "FORBIDDEN", 403, "child", org, 0, NoCheck)
      ELSE IF VerifyRaises(upi)
      THEN Response(caller, upi, rail, "ERROR", 500, "child", org, 0, NoCheck)
      ELSE LET check == VerifyInRequest(upi, owner) IN
        IF ~check.ok
        THEN Response(caller, upi, rail, "NOT_FOUND", 404, "child", org, 0, check)
        ELSE LET account == get_payment_account_by_id(child_upis[child].payment_account_id) IN
          IF account = 0
          THEN Response(caller, upi, rail, "NOT_FOUND", 404, "child", org, 0, check)
          ELSE Response(caller, upi, rail, "RESOLVED", 200, "child", org, account, check)

\* resolve.py:172-236, the branch taken when a child_upis row holds the string
ResolveChildBranch(caller, upi, rail, child) ==
  IF child_upis[child].status # "active"
  THEN Response(caller, upi, rail, "GONE", 410, "child", 0, 0, NoCheck)
  ELSE LET org == get_organization_by_id(child_upis[child].org_id) IN
    IF org = 0
    THEN Response(caller, upi, rail, "NOT_FOUND", 404, "child", 0, 0, NoCheck)
    ELSE LET found == get_user_by_id(organizations[org].user_id)
             owner == IF found = 0 THEN caller ELSE found IN
      IF ~is_user_verified(owner)
      THEN Response(caller, upi, rail, "FORBIDDEN", 403, "child", org, 0, NoCheck)
      ELSE IF VerifyRaises(upi)
      THEN Response(caller, upi, rail, "ERROR", 500, "child", org, 0, NoCheck)
      ELSE LET check == VerifyInRequest(upi, owner) IN
        IF ~check.ok
        THEN Response(caller, upi, rail, "NOT_FOUND", 404, "child", org, 0, check)
        ELSE LET account == get_payment_account_by_id(child_upis[child].payment_account_id) IN
          IF account = 0
          THEN Response(caller, upi, rail, "NOT_FOUND", 404, "child", org, 0, check)
          ELSE IF payment_accounts[account].rail # rail
          THEN Response(caller, upi, rail, "NOT_FOUND", 404, "child", org, 0, check)
          ELSE Response(caller, upi, rail, "RESOLVED", 200, "child", org, account, check)

\* a primary branch that finds the organization by the decoded namespace, core
\* segment and payment index, and neither compares the signature nor runs verify_upi
ResolvePrimaryBranchBySegments(caller, upi, rail, org) ==
  IF ParseFails(upi)
  THEN {Response(caller, upi, rail, "FORMAT_ERROR", 400, "primary", 0, 0, NoCheck)}
  ELSE LET parsed == parse_upi(upi)
           rows == {o \in OrgIdsNow :
                      /\ organizations[o].upi # NoUpi
                      /\ ~ParseFails(organizations[o].upi)
                      /\ parse_upi(organizations[o].upi).namespace = parsed.namespace
                      /\ parse_upi(organizations[o].upi).core_entity_id = parsed.core_entity_id
                      /\ parse_upi(organizations[o].upi).payment_index = parsed.payment_index} IN
    IF rows = {}
    THEN {Response(caller, upi, rail, "NOT_FOUND", 404, "primary", 0, 0, NoCheck)}
    ELSE UNION {{IF account = 0
                 THEN Response(caller, upi, rail, "NOT_FOUND", 404, "primary", o, 0, NoCheck)
                 ELSE Response(caller, upi, rail, "RESOLVED", 200, "primary", o, account, NoCheck)
                 : account \in get_payment_account_by_org_and_index(o, parsed.payment_index, rail)}
                : o \in rows}

\* resolve.py:238-305, the branch through organizations.upi; org is the row
\* get_organization_by_upi returned
ResolvePrimaryBranch(caller, upi, rail, org) ==
  IF ParseFails(upi)
  THEN {Response(caller, upi, rail, "FORMAT_ERROR", 400, "primary", 0, 0, NoCheck)}
  ELSE IF org = 0 \/ organizations[org].status = "deactivated"
  THEN {Response(caller, upi, rail, "NOT_FOUND", 404, "primary", 0, 0, NoCheck)}
  ELSE LET found == get_user_by_id(organizations[org].user_id)
           owner == IF found = 0 THEN caller ELSE found IN
    IF ~is_user_verified(owner)
    THEN {Response(caller, upi, rail, "FORBIDDEN", 403, "primary", org, 0, NoCheck)}
    ELSE IF VerifyRaises(upi)
    THEN {Response(caller, upi, rail, "ERROR", 500, "primary", org, 0, NoCheck)}
    ELSE LET check == VerifyInRequest(upi, owner) IN
      IF ~check.ok
      THEN {Response(caller, upi, rail, "NOT_FOUND", 404, "primary", org, 0, check)}
      ELSE {IF account = 0
            THEN Response(caller, upi, rail, "NOT_FOUND", 404, "primary", org, 0, check)
            ELSE Response(caller, upi, rail, "RESOLVED", 200, "primary", org, account, check)
            : account \in get_payment_account_by_org_and_index(
                               org, parse_upi(upi).payment_index, rail)}

\* a resolve_upi that validates the format before it looks at the caller
resolve_upi_format_first(payload_upi, rail, caller) ==
  LET upi_value == StrUpper(payload_upi) IN
  IF ~validate_upi_format(upi_value)
  THEN {Response(caller, upi_value, rail, "FORMAT_ERROR", 400, "format", 0, 0, NoCheck)}
  ELSE IF ~is_user_verified(caller)
  THEN {Response(caller, upi_value, rail, "FORBIDDEN", 403, "caller", 0, 0, NoCheck)}
  ELSE UNION {
         IF child # 0
         THEN {ResolveChildBranch(caller, upi_value, rail, child)}
         ELSE UNION {ResolvePrimaryBranch(caller, upi_value, rail, org)
                     : org \in get_organization_by_upi(upi_value)}
         : child \in get_child_upi_by_value(upi_value)}

\* resolve_upi: the set of responses the request can end with (a request the
\* rate limiter refuses reads nothing and is left out)
resolve_upi(payload_upi, rail, caller) ==
  LET upi_value == StrUpper(payload_upi) IN
  IF ~is_user_verified(caller)
  THEN {Response(caller, upi_value, rail, "FORBIDDEN", 403, "caller", 0, 0, NoCheck)}
  ELSE IF ~validate_upi_format(upi_value)
  THEN {Response(caller, upi_value, rail, "FORMAT_ERROR", 400, "format", 0, 0, NoCheck)}
  ELSE UNION {
         IF child # 0
         THEN {ResolveChildBranch(caller, upi_value, rail, child)}
         ELSE UNION {ResolvePrimaryBranch(caller, upi_value, rail, org)
                     : org \in get_organization_by_upi(upi_value)}
         : child \in get_child_upi_by_value(upi_value)}

\* lookup_upi (resolve.py:94-148): the set of responses the request can end with
LookupResponse(caller, upi, outcome, http, branch, org) ==
  [op |-> "lookup", caller |-> caller, upi |-> upi, outcome |-> outcome, http |-> http,
   branch |-> branch, org |-> org]

LookupOrganization(caller, upi, branch, org) ==
  IF org = 0 \/ organizations[org].status = "deactivated"
  THEN LookupResponse(caller, upi, "NOT_FOUND", 404, branch, 0)
  ELSE IF organizations[org].verification_status # "verified"
  THEN LookupResponse(caller, upi, "NOT_FOUND", 404, branch, org)
  ELSE LET found == get_user_by_id(organizations[org].user_id)
           owner == IF found = 0 THEN caller ELSE found IN
    IF VerifyRaises(upi)
    THEN LookupResponse(caller, upi, "ERROR", 500, branch, org)
    ELSE IF ~verify_upi(upi, owner)
    THEN LookupResponse(caller, upi, "NOT_FOUND", 404, branch, org)
    ELSE LookupResponse(caller, upi, "FOUND", 200, branch, org)

lookup_upi(payload_upi, caller) ==
  LET upi_value == StrUpper(payload_upi) IN
  IF ~validate_upi_format(upi_value)
  THEN {LookupResponse(caller, upi_value, "FORMAT_ERROR", 400, "format", 0)}
  ELSE UNION {
         IF child # 0
         THEN {IF child_upis[child].status # "active"
               THEN LookupResponse(caller, upi_value, "GONE", 410, "child", 0)
               ELSE LookupOrganization(caller, upi_value, "child",
                                       get_organization_by_id(child_upis[child].org_id))}
         ELSE {LookupOrganization(caller, upi_value, "primary", org)
               : org \in get_organization_by_upi(upi_value)}
         : child \in get_child_upi_by_value(upi_value)}

(***************************************************************************)
(* Requests that change the store.                                         *)
(***************************************************************************)
CoreId(core) == CorePrefix \o core

\* POST /api/auth/signup (auth.py:156-191): create_user with master_upi "", then
\* generate_upi, update_user_master_upi and _issue_session; when generate_upi
\* raises, the user row stays without a master identifier and without a session
signup(u, core) ==
  /\ ~users[u].present
  /\ LET master_upi == IF LoadSecretFails THEN NoUpi ELSE generate_upi(CoreId(core), 0, u) IN
       users' = [users EXCEPT ![u] = [present |-> TRUE, master_upi |-> master_upi]]
  /\ sessions' = IF LoadSecretFails THEN sessions ELSE create_session(sessions, u)
  /\ resp' = NoResp
  /\ UNCHANGED <<limiter, otps, verifying, granted, updating, identity_verifications, UPI_SECRET_KEY, DATA_ENC_KEY, token_bytes, organizations, onboarding_sessions, saved_order, payment_accounts,
                 child_upis, inflight>>

\* the tables complete_onboarding_tx writes, as its connection sees them
TxView ==
  [organizations |-> organizations, onboarding_sessions |-> onboarding_sessions,
   saved_order |-> saved_order, identity_verifications |-> identity_verifications,
   payment_accounts |-> payment_accounts]

\* the rows a database constraint can refuse, "none" for no refusal
Violations == {"none", "organizations", "onboarding_sessions", "identity_verifications",
               "payment_accounts"}

\* a block whose statements are committed one by one
transaction_autocommit(before, written, raised) == written

\* transaction() (connection.py:108-124): the tables after the block, commit
\* when it ended, rollback when it raised
transaction(before, written, raised) == IF raised THEN before ELSE written

\* create_organization_step1, create_onboarding_session (with
\* update_onboarding_role) and create_identity_verification on the connection
\* of the transaction (queries.py:1836-1893)
TxOrganization(w, user_id) ==
  [w EXCEPT !.organizations = Append(@,
     [user_id |-> user_id, upi |-> NoUpi, verification_status |-> "unverified",
      status |-> "draft"])]

TxSession(w, session_id, org_id, user_id) ==
  [w EXCEPT !.onboarding_sessions = Append(@,
     [org_id |-> org_id, user_id |-> user_id, state |-> "STEP_2_COMPLETE",
      completed |-> FALSE, payment_account_id |-> 0]),
            !.saved_order = Touch(@, session_id)]

TxIdentity(w, session_id, org_id, user_id) ==
  [w EXCEPT !.identity_verifications = Append(@,
     [session_id |-> session_id, org_id |-> org_id, user_id |-> user_id,
      status |-> "pending"])]

\* create_payment_account and set_onboarding_payment_account (queries.py:1899-1927)
TxAccount(w, session_id, org_id, user_id, payment_index, rail, draws) ==
  [w EXCEPT !.payment_accounts = Append(@,
     PaymentAccountRow(org_id, user_id, payment_index, rail, RailOwnFields(rail), draws)),
            !.onboarding_sessions[session_id].payment_account_id = Len(w.payment_accounts) + 1]

\* the last statements (queries.py:1929-1961): the call is pending, or the
\* identifier is issued and the session verified
TxFinish(w, session_id, org_id, pending_call, upi) ==
  [w EXCEPT !.organizations =
       IF pending_call
       THEN set_organization_verification_status(@, org_id, "pending_call", "pending_call")
       ELSE set_organization_upi(@, org_id, upi, "verified", "active"),
            !.onboarding_sessions[session_id].state =
       IF pending_call THEN "PENDING_CALL" ELSE "VERIFIED",
            !.saved_order = Touch(@, session_id)]

TxResponse(u, org_id, session_id, payment_account_id, raised_at) ==
  [op |-> "complete_onboarding_tx", caller |-> u, org_id |-> org_id,
   session_id |-> session_id, payment_account_id |-> payment_account_id,
   outcome |-> "RAISED", raised_at |-> raised_at]

\* complete_onboarding_tx (queries.py:1814-1970).  has_rail: bank_data names a
\* rail; violation: the insert a database constraint refuses.  The statement
\* that raises ends the block; what was written before it is rolled back.
complete_onboarding_tx(u, verification_method, rail, core, has_rail, violation) ==
  /\ users[u].present
  /\ \E draws \in Draws(RailOwnFields(rail)) :
     LET org_id == Len(organizations) + 1
         session_id == Len(onboarding_sessions) + 1
         payment_index == _next_payment_index_for_org(org_id)
         payment_account_id == Len(payment_accounts) + 1
         pending_call == verification_method = "call"
         w1 == TxOrganization(TxView, u)
         w2 == TxSession(w1, session_id, org_id, u)
         w3 == TxIdentity(w2, session_id, org_id, u)
         w4 == TxAccount(w3, session_id, org_id, u, payment_index, rail, draws)
         w5 == TxFinish(w4, session_id, org_id, pending_call,
                        generate_upi(CoreId(core), payment_index, u))
         raised_at ==
           IF violation = "organizations" THEN "create_organization_step1"
           ELSE IF violation = "onboarding_sessions" THEN "create_onboarding_session"
           ELSE IF violation = "identity_verifications" THEN "create_identity_verification"
           ELSE IF ~has_rail THEN "rail"
           ELSE IF EncryptFails(RailOwnFields(rail)) \/ violation = "payment_accounts"
                THEN "create_payment_account"
           ELSE IF ~pending_call /\ users[u].master_upi = NoUpi THEN "master_upi"
           ELSE IF ~pending_call /\ LoadSecretFails THEN "generate_upi"
           ELSE "none"
         written ==
           CASE raised_at = "create_organization_step1" -> TxView
             [] raised_at = "create_onboarding_session" -> w1
             [] raised_at = "create_identity_verification" -> w2
             [] raised_at \in {"rail", "create_payment_account"} -> w3
             [] raised_at \in {"master_upi", "generate_upi"} -> w4
             [] OTHER -> w5
         after == transaction(TxView, written, raised_at # "none")
     IN
       /\ organizations' = after.organizations
       /\ onboarding_sessions' = after.onboarding_sessions
       /\ saved_order' = after.saved_order
       /\ identity_verifications' = after.identity_verifications
       /\ payment_accounts' = after.payment_accounts
       /\ resp' = IF raised_at = "none" THEN NoResp
                  ELSE TxResponse(u, org_id, session_id, payment_account_id, raised_at)
  /\ UNCHANGED <<limiter, login, updating, UPI_SECRET_KEY, DATA_ENC_KEY, token_bytes, users, child_upis, inflight>>

\* POST /onboarding/complete (onboarding.py:598-666) running
\* complete_onboarding_tx (queries.py:1814-1970) as one transaction.  The route
\* hands the transaction two keyword arguments (existing_session_id,
\* existing_org_id) that its definition in queries.py does not declare; the action
\* is the transaction with the parameters it declares, behind the route's guards.
onboarding_complete(u, verification_method, rail, core) ==
  /\ users[u].present
  /\ LET active == get_active_onboarding_session(u) IN
       active # 0 => onboarding_sessions[active].state \notin {"PENDING_CALL", "PENDING_REVIEW", "VERIFIED"}
  /\ users[u].master_upi # NoUpi \/ verification_method = "call"
  /\ ~EncryptFails(RailOwnFields(rail))
  /\ ~LoadSecretFails \/ verification_method = "call"
  /\ complete_onboarding_tx(u, verification_method, rail, core, TRUE, "none")

\* complete_onboarding_and_issue_identifier raises before it writes anything
ApprovalFails(session_id) ==
  LET session == onboarding_sessions[session_id]
      org == get_organization(session.org_id, session.user_id)
      payment_account_id == get_onboarding_payment_account(session_id)
      account == get_payment_account_by_id(payment_account_id)
  IN  \/ org = 0
      \/ payment_account_id = 0
      \/ account = 0
      \/ payment_accounts[account].org_id # org
      \/ users[organizations[org].user_id].master_upi = NoUpi

\* POST /api/admin/verification/{session_id}/approve (admin.py:152-180) running
\* complete_onboarding_and_issue_identifier (queries.py:1973-2017)
approve_verification(session_id, core) ==
  /\ session_id \in SessionIdsNow
  /\ ~ApprovalFails(session_id)
  /\ ~LoadSecretFails
  /\ LET session == onboarding_sessions[session_id]
         org == session.org_id
         payment_account_id == get_onboarding_payment_account(session_id)
         payment_index == payment_accounts[payment_account_id].payment_index
         owner_user_id == organizations[org].user_id
         upi == generate_upi(CoreId(core), payment_index, owner_user_id)
     IN
       /\ organizations' = set_organization_upi(organizations, org, upi, "verified", "active")
       /\ payment_accounts' = ActivateAccount(payment_accounts, payment_account_id)
       /\ onboarding_sessions' = [onboarding_sessions EXCEPT ![session_id].state = "VERIFIED",
                                                             ![session_id].completed = TRUE]
       /\ saved_order' = Touch(saved_order, session_id)
  /\ resp' = NoResp
  /\ UNCHANGED <<limiter, login, updating, identity_verifications, UPI_SECRET_KEY, DATA_ENC_KEY, token_bytes, users, child_upis, inflight>>

\* POST /api/admin/verification/{session_id}/reject (admin.py:183-226)
reject_verification(session_id) ==
  /\ session_id \in SessionIdsNow
  /\ LET org == onboarding_sessions[session_id].org_id IN
       organizations' = set_organization_verification_status(organizations, org, "rejected", "rejected")
  /\ onboarding_sessions' = [onboarding_sessions EXCEPT ![session_id].state = "REJECTED"]
  /\ saved_order' = Touch(saved_order, session_id)
  /\ resp' = NoResp
  /\ UNCHANGED <<limiter, login, updating, identity_verifications, UPI_SECRET_KEY, DATA_ENC_KEY, token_bytes, users, payment_accounts, child_upis, inflight>>

\* POST /api/admin/orgs/{org_id}/verify running _verify_org (onboarding.py:696-800)
admin_verify_org(org, core) ==
  /\ org \in OrgIdsNow
  /\ LET session_id == get_latest_onboarding_session_by_org(org) IN
     /\ session_id # 0
     /\ LET payment_account_id == get_onboarding_payment_account(session_id)
            user == get_user_by_id(organizations[org].user_id)
        IN
          /\ payment_account_id # 0
          /\ get_payment_account_by_id(payment_account_id) # 0
          /\ user # 0
          /\ users[user].master_upi # NoUpi
          /\ organizations[org].upi = NoUpi => ~LoadSecretFails
          /\ IF organizations[org].upi = NoUpi
             THEN LET payment_index == payment_accounts[payment_account_id].payment_index
                      upi == generate_upi(CoreId(core), payment_index, user)
                  IN  /\ organizations' = set_organization_upi(organizations, org, upi, "verified", "active")
                      /\ payment_accounts' = ActivateAccount(payment_accounts, payment_account_id)
             ELSE /\ organizations' = set_organization_verification_status(organizations, org, "verified", "active")
                  /\ UNCHANGED payment_accounts
          /\ onboarding_sessions' = [onboarding_sessions EXCEPT ![session_id].state = "VERIFIED",
                                                                ![session_id].completed = TRUE]
          /\ saved_order' = Touch(saved_order, session_id)
  /\ resp' = NoResp
  /\ UNCHANGED <<limiter, login, updating, identity_verifications, UPI_SECRET_KEY, DATA_ENC_KEY, token_bytes, users, child_upis, inflight>>

\* POST /api/accounts (accounts.py:109-155), first half: the request has read
\* max(payment_index) + 1 (create_payment_account, queries.py:265-266) and has not
\* inserted yet; the row to insert is built, its sensitive fields encrypted
create_account_read_index(u, rail, fields) ==
  /\ users[u].present
  /\ is_user_verified(u)
  /\ LatestOrgOfUser(u) # 0
  /\ ~EncryptFails(fields)
  /\ \E draws \in Draws(fields) :
       LET org == LatestOrgOfUser(u) IN
         inflight' = Append(inflight,
                            PaymentAccountRow(org, u, _next_payment_index_for_org(org), rail,
                                              fields, draws))
  /\ resp' = NoResp
  /\ UNCHANGED <<limiter, login, updating, identity_verifications, UPI_SECRET_KEY, DATA_ENC_KEY, token_bytes, users, organizations, onboarding_sessions, saved_order, payment_accounts,
                 child_upis>>

\* POST /api/accounts, second half: the insert of create_payment_account
\* (queries.py:288-320) with the index read earlier
create_account_insert(i) ==
  /\ i \in 1..Len(inflight)
  /\ payment_accounts' = Append(payment_accounts, inflight[i])
  /\ inflight' = SubSeq(inflight, 1, i - 1) \o SubSeq(inflight, i + 1, Len(inflight))
  /\ resp' = NoResp
  /\ UNCHANGED <<limiter, login, updating, identity_verifications, UPI_SECRET_KEY, DATA_ENC_KEY, token_bytes, users, organizations, onboarding_sessions, saved_order, child_upis>>

\* update_payment_account(account_id, status=...) (queries.py:756-788)
update_payment_account(account_id, status) ==
  /\ account_id \in AccountIdsNow
  /\ payment_accounts[account_id].status # status
  /\ payment_accounts' = [payment_accounts EXCEPT ![account_id].status = status]
  /\ resp' = NoResp
  /\ UNCHANGED <<limiter, login, updating, identity_verifications, UPI_SECRET_KEY, DATA_ENC_KEY, token_bytes, users, organizations, onboarding_sessions, saved_order, child_upis,
                 inflight>>

\* the INSERT of queries.create_child_upi raises UniqueViolation
UniqueViolation(upi) == \E c \in ChildIdsNow : child_upis[c].upi = upi

ChildUpiAttempts == 3

\* the retry loop of create_child_upi (auth.py:458-479) from attempt k on.  Every
\* query of a request runs on the connection db_connection_middleware checked out
\* (main.py:126-132, connection.py:57-62), and get_connection does not roll that
\* connection back when the insert raises: after a UniqueViolation its
\* transaction is aborted, the insert of the next attempt raises an error that is
\* not a UniqueViolation, and "except Exception" ends the request (auth.py:474-476).
\* generate_upi raising for want of a secret ends the request the same way.
\* won: the attempt whose insert succeeded, 0 when none did; tried: the attempts
\* made; collided: the inserts that raised UniqueViolation.
RECURSIVE ChildUpiRetryLoop(_, _, _)
ChildUpiRetryLoop(attempts, k, aborted) ==
  IF k > ChildUpiAttempts
  THEN [won |-> 0, tried |-> ChildUpiAttempts, collided |-> ChildUpiAttempts, outcome |-> "UNIQUE_EXHAUSTED", http |-> 500]
  ELSE IF aborted \/ LoadSecretFails
  THEN [won |-> 0, tried |-> k, collided |-> k - 1, outcome |-> "GENERATION_FAILED", http |-> 400]
  ELSE IF UniqueViolation(attempts[k])
  THEN ChildUpiRetryLoop(attempts, k + 1, TRUE)
  ELSE [won |-> k, tried |-> k, collided |-> k - 1, outcome |-> "CREATED", http |-> 200]

\* a test of the payload's account that looks for the row only
InvalidPaymentAccountMissing(acct, org_id) == acct = 0

\* the test of the payload's account (auth.py:414-415): 400 'Invalid payment
\* account.' when the row is missing or belongs to another organization
InvalidPaymentAccount(acct, org_id) ==
  acct = 0 \/ payment_accounts[acct].org_id # org_id

\* POST /api/orgs/child-upi (auth.py:402-481); account_id = 0 asks for a new
\* payment account on new_rail, cores are the tags drawn by the attempts
create_child_upi(u, account_id, new_rail, cores) ==
  /\ users[u].present
  /\ LET latest_session == get_latest_onboarding_session(u) IN
     /\ latest_session # 0
     /\ onboarding_sessions[latest_session].state = "VERIFIED"
     /\ LET org_id == onboarding_sessions[latest_session].org_id IN
        /\ IF account_id # 0
           THEN /\ ~InvalidPaymentAccount(get_payment_account_by_id(account_id), org_id)
                /\ UNCHANGED payment_accounts
           ELSE /\ ~EncryptFails(RailOwnFields(new_rail))
                /\ \E draws \in Draws(RailOwnFields(new_rail)) :
                     payment_accounts' = Append(payment_accounts,
                       PaymentAccountRow(org_id, u, _next_payment_index_for_org(org_id),
                                         new_rail, RailOwnFields(new_rail), draws))
        /\ LET payment_account_id == IF account_id # 0 THEN account_id ELSE Len(payment_accounts')
               stored == payment_accounts'[payment_account_id].payment_index
               payment_index == IF stored = 0 THEN 1 ELSE stored
               attempts == [k \in 1..ChildUpiAttempts |->
                              generate_upi(CoreId(cores[k]), payment_index, u)]
               loop == ChildUpiRetryLoop(attempts, 1, FALSE)
           IN  IF loop.won = 0
               THEN /\ UNCHANGED child_upis
                    /\ resp' = [op |-> "create_child_upi", caller |-> u, outcome |-> loop.outcome,
                                http |-> loop.http, upi |-> NoUpi, child |-> 0,
                                account |-> payment_account_id, tried |-> loop.tried,
                                collided |-> loop.collided]
               ELSE /\ child_upis' = Append(child_upis,
                          [org_id |-> org_id, payment_account_id |-> payment_account_id,
                           upi |-> attempts[loop.won], status |-> "active",
                           disabled_at |-> "null"])
                    /\ resp' = [op |-> "create_child_upi", caller |-> u, outcome |-> loop.outcome,
                                http |-> loop.http, upi |-> attempts[loop.won],
                                child |-> Len(child_upis) + 1,
                                account |-> payment_account_id, tried |-> loop.tried,
                                collided |-> loop.collided]
  /\ UNCHANGED <<limiter, login, updating, identity_verifications, UPI_SECRET_KEY, DATA_ENC_KEY, token_bytes, users, organizations, onboarding_sessions, saved_order, inflight>>

\* the service is restarted with another value of the environment variable that
\* _load_secret reads (upi.py:55-56); the database is kept
set_UPI_SECRET_KEY(secret) ==
  /\ secret # UPI_SECRET_KEY
  /\ UPI_SECRET_KEY' = secret
  /\ UNCHANGED <<limiter, login, updating, identity_verifications, DATA_ENC_KEY, token_bytes, store, resp>>

\* the service is restarted with another value of the environment variable that
\* _load_key reads (crypto.py:24-27); the database is kept
set_DATA_ENC_KEY(key) ==
  /\ key # DATA_ENC_KEY
  /\ DATA_ENC_KEY' = key
  /\ UNCHANGED <<limiter, login, updating, identity_verifications, UPI_SECRET_KEY, token_bytes, store, resp>>

payment_account_has_child_upis(account_id) ==
  \E c \in ChildIdsNow : child_upis[c].payment_account_id = account_id

payment_account_used_for_org_upi(account_id) ==
  LET session == get_latest_onboarding_session_by_org(payment_accounts[account_id].org_id)
  IN  /\ session # 0
      /\ get_onboarding_payment_account(session) # 0
      /\ get_onboarding_payment_account(session) = account_id

\* an update that writes the fields given to columns of their own
update_payment_account_details_plain(accts, account_id, fields, draws) ==
  [accts EXCEPT ![account_id].columns = @ \cup (fields \cap sensitive_fields)]

\* an update that encrypts under the nonce the field already has
update_payment_account_details_keep_nonce(accts, account_id, fields, draws) ==
  LET old == accts[account_id].enc
      kept == [field \in fields \cap sensitive_fields |->
                 IF field \in DOMAIN old THEN old[field].n ELSE draws[field]]
  IN  [accts EXCEPT ![account_id].enc = EncryptFields(fields, kept) @@ old]

\* update_payment_account_details (queries.py:323-382): "enc = enc || %s::jsonb"
\* with the fields given, each encrypted anew; other entries are kept
update_payment_account_details(accts, account_id, fields, draws) ==
  LET enc_updates == EncryptFields(fields, draws)
  IN  [accts EXCEPT ![account_id].enc = enc_updates @@ accts[account_id].enc]

\* draws: what the calls of secrets.token_bytes of this request returned,
\* <<>> when the request ended before it encrypted
UpdateResponse(u, account_id, fields, draws, outcome, http) ==
  [op |-> "update_account", caller |-> u, account |-> account_id, fields |-> fields,
   draws |-> draws, outcome |-> outcome, http |-> http]

\* PUT /api/accounts/{account_id} (accounts.py:158-215) with a payload of
\* non-empty rail fields that pass _validate_rail_updates
update_account(u, account_id, fields) ==
  /\ users[u].present
  /\ fields # {}
  /\ get_payment_account_by_id(account_id) # 0
  /\ \/ get_organization(payment_accounts[account_id].org_id, u) # 0
     \/ payment_accounts[account_id].user_id = u
  /\ LET rail_locked == \/ payment_account_has_child_upis(account_id)
                        \/ payment_account_used_for_org_upi(account_id)
     IN  IF rail_locked /\ fields \cap sensitive_fields # {}
         THEN /\ resp' = UpdateResponse(u, account_id, fields, <<>>, "CONFLICT", 409)
              /\ UNCHANGED payment_accounts
         ELSE IF EncryptFails(fields) \/ payment_accounts[account_id].user_id # u
         THEN /\ resp' = UpdateResponse(u, account_id, fields, <<>>, "ERROR", 500)
              /\ UNCHANGED payment_accounts
         ELSE \E draws \in Draws(fields) :
                /\ resp' = UpdateResponse(u, account_id, fields, draws, "UPDATED", 200)
                /\ payment_accounts' =
                     update_payment_account_details(payment_accounts, account_id, fields, draws)
  /\ UNCHANGED <<limiter, login, updating, identity_verifications, UPI_SECRET_KEY, DATA_ENC_KEY, token_bytes, users, organizations, onboarding_sessions, saved_order,
                 child_upis, inflight>>

\* update_account as its statements run, the lock check a query of its own:
\* the request up to the 409 (accounts.py:161-189).  A request that passes waits
\* in updating for its UPDATE, and requests of other callers are served meanwhile.
update_account_check(u, account_id, fields) ==
  /\ users[u].present
  /\ fields # {}
  /\ get_payment_account_by_id(account_id) # 0
  /\ \/ get_organization(payment_accounts[account_id].org_id, u) # 0
     \/ payment_accounts[account_id].user_id = u
  /\ LET rail_locked == \/ payment_account_has_child_upis(account_id)
                        \/ payment_account_used_for_org_upi(account_id)
     IN  IF rail_locked /\ fields \cap sensitive_fields # {}
         THEN /\ resp' = UpdateResponse(u, account_id, fields, <<>>, "CONFLICT", 409)
              /\ UNCHANGED updating
         ELSE /\ updating' = Append(updating,
                     [caller |-> u, account |-> account_id, fields |-> fields])
              /\ UNCHANGED resp
  /\ UNCHANGED <<limiter, login, identity_verifications, UPI_SECRET_KEY, DATA_ENC_KEY, token_bytes, users, organizations,
                 onboarding_sessions, saved_order, payment_accounts, child_upis, inflight>>

\* the rest of the request (accounts.py:195-215): update_payment_account_details
\* writes "where id = %s and user_id = %s" and nothing reads the lock again
update_account_write(i) ==
  /\ i \in 1..Len(updating)
  /\ LET u == updating[i].caller
         account_id == updating[i].account
         fields == updating[i].fields
     IN  IF EncryptFails(fields) \/ payment_accounts[account_id].user_id # u
         THEN /\ resp' = UpdateResponse(u, account_id, fields, <<>>, "ERROR", 500)
              /\ UNCHANGED payment_accounts
         ELSE \E draws \in Draws(fields) :
                /\ resp' = UpdateResponse(u, account_id, fields, draws, "UPDATED", 200)
                /\ payment_accounts' =
                     update_payment_account_details(payment_accounts, account_id, fields, draws)
  /\ updating' = SubSeq(updating, 1, i - 1) \o SubSeq(updating, i + 1, Len(updating))
  /\ UNCHANGED <<limiter, login, identity_verifications, UPI_SECRET_KEY, DATA_ENC_KEY, token_bytes, users, organizations,
                 onboarding_sessions, saved_order, child_upis, inflight>>

\* _set_child_upi_status (queries.py:729-745)
_set_child_upi_status(rows, child_upi_id, status) ==
  LET disabled_at_sql == IF status = "disabled" THEN "now()" ELSE "null" IN
    [rows EXCEPT ![child_upi_id].status = status,
                 ![child_upi_id].disabled_at = disabled_at_sql]

\* the guard shared by the disable and reactivate routes (auth.py:513-519, 532-538)
OwnsChildUpi(u, child_upi_id) ==
  LET latest_session == get_latest_onboarding_session(u) IN
    /\ users[u].present
    /\ latest_session # 0
    /\ onboarding_sessions[latest_session].state = "VERIFIED"
    /\ child_upi_id \in ChildIdsNow
    /\ child_upis[child_upi_id].org_id = onboarding_sessions[latest_session].org_id

\* POST /api/orgs/child-upis/{id}/disable (auth.py:511-527)
disable_child_upi(u, child_upi_id) ==
  /\ OwnsChildUpi(u, child_upi_id)
  /\ child_upis' = _set_child_upi_status(child_upis, child_upi_id, "disabled")
  /\ resp' = NoResp
  /\ UNCHANGED <<limiter, login, updating, identity_verifications, UPI_SECRET_KEY, DATA_ENC_KEY, token_bytes, users, organizations, onboarding_sessions, saved_order, payment_accounts,
                 inflight>>

\* POST /api/orgs/child-upis/{id}/reactivate (auth.py:530-546)
reactivate_child_upi(u, child_upi_id) ==
  /\ OwnsChildUpi(u, child_upi_id)
  /\ child_upis' = _set_child_upi_status(child_upis, child_upi_id, "active")
  /\ resp' = NoResp
  /\ UNCHANGED <<limiter, login, updating, identity_verifications, UPI_SECRET_KEY, DATA_ENC_KEY, token_bytes, users, organizations, onboarding_sessions, saved_order, payment_accounts,
                 inflight>>

(***************************************************************************)
(* The identifier strings a caller submits to /api/resolve.                *)
(***************************************************************************)
\* the identifier strings the resolution path can find: child_upis.upi, organizations.upi
IssuedStrings ==
  {child_upis[c].upi : c \in ChildIdsNow}
    \cup {organizations[o].upi : o \in {x \in OrgIdsNow : organizations[x].upi # NoUpi}}

\* every identifier string some table holds
StoredStrings ==
  IssuedStrings \cup {users[u].master_upi : u \in {v \in UserIds : users[v].present}}

LowerChar(c) == IF c \in Upper THEN c + 32 ELSE c

\* the strings that differ from x at exactly one of the positions, the replacement
\* drawn from chars or being the lower-case form of the character replaced
OneCharOff(x, positions, chars) ==
  UNION {{[x EXCEPT ![i] = c] : c \in (chars \cup {LowerChar(x[i])}) \ {x[i]}} : i \in positions}

\* replacement characters of a tampered copy: '9', 'A', '2', '-'
FlipChars == {57, 65, 50, 45}

\* the copies of x with a single character replaced, at any position
Tampered(x) == OneCharOff(x, 1..Len(x), FlipChars)

\* the tampered copies a caller submits: a letter in the payment index, and the last
\* signature character replaced by '9', by '-' or by its lower-case form
TamperedSubmitted(x) ==
  OneCharOff(x, {NAMESPACE_LENGTH + PAYMENT_INDEX_LENGTH}, {65})
    \cup OneCharOff(x, {UPI_LENGTH}, {57, 45})

\* strings signed for a user u with the core segment and payment index of an
\* identifier the store holds
Crafted ==
  {generate_upi(parse_upi(x).core_entity_id, parse_upi(x).payment_index, u)
     : x \in IssuedStrings, u \in UserIds}

\* too short
Malformed == {<<65, 66>>}

\* x typed with a leading or a trailing space
Padded(x) == {<<32>> \o x, x \o <<32>>}

ResolveInputs ==
  IssuedStrings \cup Crafted \cup Malformed \cup UNION {TamperedSubmitted(x) : x \in IssuedStrings}
    \cup UNION {Padded(x) : x \in IssuedStrings}

\* POST /api/resolve (resolve.py:151-305)
resolve(caller, payload_upi, rail) ==
  /\ users[caller].present
  /\ \E r \in resolve_upi(payload_upi, rail, caller) : resp' = [payload |-> payload_upi] @@ r
  /\ UNCHANGED <<limiter, login, updating, identity_verifications, UPI_SECRET_KEY, DATA_ENC_KEY, token_bytes, store>>

\* the strings submitted to /api/upi/lookup
LookupInputs == IssuedStrings \cup Malformed \cup UNION {TamperedSubmitted(x) : x \in IssuedStrings}

\* POST /api/upi/lookup (resolve.py:94-148)
lookup(caller, payload_upi) ==
  /\ users[caller].present
  /\ \E r \in lookup_upi(payload_upi, caller) : resp' = [payload |-> payload_upi] @@ r
  /\ UNCHANGED <<limiter, login, updating, identity_verifications, UPI_SECRET_KEY, DATA_ENC_KEY, token_bytes, store>>

\* the characters put into the payment-index window: '0', '7', 'A', 'Z'
WindowChars == {48, 55, 65, 90}

\* the copies of x with the payment-index window (characters 3 and 4) replaced
\* so that it holds at least one non-digit
WindowTampered(x) ==
  {[x EXCEPT ![NAMESPACE_LENGTH + 1] = a, ![NAMESPACE_LENGTH + 2] = b] :
     <<a, b>> \in {w \in WindowChars \X WindowChars : w[1] \notin Digits \/ w[2] \notin Digits}}

\* the strings submitted to /api/resolve under SpecDecode
DecodeInputs == IssuedStrings \cup UNION {WindowTampered(x) : x \in IssuedStrings}

(***************************************************************************)
(* The identifier codec (app/utils/upi.py) called on its own.              *)
(***************************************************************************)
\* core-entity tags: "CORE-AB12", "core-x9", "", "a-b-c", "Zq_7!kLmn"
CoreEntityTags ==
  {<<67, 79, 82, 69, 45, 65, 66, 49, 50>>, <<99, 111, 114, 101, 45, 120, 57>>, <<>>,
   <<97, 45, 98, 45, 99>>, <<90, 113, 95, 55, 33, 107, 76, 109, 110>>}

\* the payment indexes that fit the two-digit window
PaymentIndexes == 0..99

\* parse_upi as a total function: ok is FALSE when it raises ValueError
ParseResult(upi) ==
  IF ParseFails(upi)
  THEN [ok |-> FALSE, namespace |-> <<>>, payment_index |-> 0, core_entity_id |-> <<>>,
        signature |-> <<>>]
  ELSE [ok |-> TRUE, namespace |-> parse_upi(upi).namespace,
        payment_index |-> parse_upi(upi).payment_index,
        core_entity_id |-> parse_upi(upi).core_entity_id,
        signature |-> parse_upi(upi).signature]

\* generate_upi(core_entity_id, payment_index, user_id), then parse_upi and
\* verify_upi of the string it returned
generate_parse_verify(core_entity_id, payment_index, user_id) ==
  /\ ~LoadSecretFails
  /\ LET upi == generate_upi(core_entity_id, payment_index, user_id) IN
       resp' = [op |-> "generate_upi", core_entity_id |-> core_entity_id,
                payment_index |-> payment_index, user_id |-> user_id, upi |-> upi,
                parsed |-> ParseResult(upi), verified |-> verify_upi(upi, user_id)]
  /\ UNCHANGED <<limiter, login, updating, identity_verifications, UPI_SECRET_KEY, DATA_ENC_KEY, token_bytes, store>>

\* _extract_core_segment(core_entity_id), and again on "CORE-" + its result
extract_core_segment(core_entity_id) ==
  /\ LET segment == _extract_core_segment(core_entity_id) IN
       resp' = [op |-> "_extract_core_segment", core_entity_id |-> core_entity_id,
                segment |-> segment, again |-> _extract_core_segment(CorePrefix \o segment)]
  /\ UNCHANGED <<limiter, login, updating, identity_verifications, UPI_SECRET_KEY, DATA_ENC_KEY, token_bytes, store>>

(***************************************************************************)
(* Specifications.                                                         *)
(***************************************************************************)
\* ---- the fixed-window rate limiter (utils/ratelimit.py) ----

\* RateLimit (ratelimit.py:17-20)
RateLimit(limit, window_seconds) == [limit |-> limit, window_seconds |-> window_seconds]

\* the limits of the rules, scaled down from the deployed 30, 5 and 60
LoginIpLimit == 2
LoginEmailLimit == 2
OtpAttemptsLimit == 2
ResolveLimit == 1

\* the keys of four call sites and the rule each call site passes with its key:
\* login_start (auth.py:200-205), login_verify (auth.py:233-237, one key per
\* login_id), resolve (resolve.py:159-162), the global middleware (main.py:90-94)
RateKeys == {"login_start:ip", "login_start:email", "login_verify:1",
             "resolve:ip", "global:ip"}
RuleOf(key) ==
  CASE key = "login_start:ip"    -> RateLimit(LoginIpLimit, 600)
    [] key = "login_start:email" -> RateLimit(LoginEmailLimit, 600)
    [] key = "login_verify:1"    -> RateLimit(OtpAttemptsLimit, 600)
    [] key = "resolve:ip"        -> RateLimit(ResolveLimit, 60)
    [] OTHER                     -> RateLimit(0, 60)

\* int(time.time()) when the service starts, and the last second of the model
Epoch == 600
MaxNow == 690
TickSeconds == 30
WindowIds == 0..(MaxNow \div 60)

\* _buckets.get(key) is None
NoBucket == <<>>
NoCall == [pc |-> "idle"]

\* the number of buckets below which _maybe_prune does no work, scaled down
\* from 10_000 (ratelimit.py:71)
PruneThreshold == 1

BucketKeys(buckets) == {k \in DOMAIN buckets : buckets[k] # NoBucket}

Max(a, b) == IF a >= b THEN a ELSE b

\* _FixedWindowStore._maybe_prune (ratelimit.py:60-77): the buckets and
\* _last_prune it leaves
_maybe_prune(buckets, last_prune, at, window_seconds) ==
  IF at - last_prune < 60
  THEN [buckets |-> buckets, last_prune |-> last_prune]
  ELSE LET current_window == at \div window_seconds
           min_window == current_window - 1
           keys_to_delete == {k \in BucketKeys(buckets) : buckets[k][1] < min_window}
       IN  IF Cardinality(BucketKeys(buckets)) <= PruneThreshold
           THEN [buckets |-> buckets, last_prune |-> at]
           ELSE [buckets |-> [k \in DOMAIN buckets |->
                                IF k \in keys_to_delete THEN NoBucket ELSE buckets[k]],
                 last_prune |-> at]

\* _FixedWindowStore.check before the lock (ratelimit.py:37-43): the early
\* returns of a rule that limits nothing, else the read of the clock
check_rate_limit(t, key) ==
  LET limit == RuleOf(key).limit
      window_seconds == RuleOf(key).window_seconds
  IN  /\ calls[t].pc # "lock"
      /\ IF limit <= 0 \/ window_seconds <= 0
         THEN calls' = [calls EXCEPT ![t] =
                [pc |-> "returned", key |-> key, at |-> now, window_id |-> 0,
                 ok |-> TRUE, retry_after |-> 0]]
         ELSE calls' = [calls EXCEPT ![t] =
                [pc |-> "lock", key |-> key, at |-> now,
                 window_id |-> now \div window_seconds,
                 ok |-> FALSE, retry_after |-> 0]]
      /\ UNCHANGED <<_buckets, _last_prune, now, allowed>>
      /\ UNCHANGED <<login, updating, store, resp, UPI_SECRET_KEY, DATA_ENC_KEY, token_bytes>>

\* the result of the block under the lock (ratelimit.py:47-58) on pruned buckets
CheckLocked(buckets, key, limit, window_seconds, at, window_id) ==
  LET current == buckets[key] IN
    IF current = NoBucket \/ current[1] # window_id
    THEN [buckets |-> [buckets EXCEPT ![key] = <<window_id, 1>>],
          ok |-> TRUE, retry_after |-> 0]
    ELSE IF current[2] >= limit
    THEN [buckets |-> buckets, ok |-> FALSE,
          retry_after |-> Max(1, (window_id + 1) * window_seconds - at)]
    ELSE [buckets |-> [buckets EXCEPT ![key] = <<window_id, current[2] + 1>>],
          ok |-> TRUE, retry_after |-> 0]

\* _FixedWindowStore.check under the lock (ratelimit.py:45-58), one thread at
\* a time: prune, then count the call in its bucket
check_locked(t) ==
  /\ calls[t].pc = "lock"
  /\ LET c == calls[t]
         rule == RuleOf(c.key)
         pruned == _maybe_prune(_buckets, _last_prune, c.at, rule.window_seconds)
         res == CheckLocked(pruned.buckets, c.key, rule.limit, rule.window_seconds,
                            c.at, c.window_id)
     IN  /\ _buckets' = res.buckets
         /\ _last_prune' = pruned.last_prune
         /\ calls' = [calls EXCEPT ![t] =
               [c EXCEPT !.pc = "returned", !.ok = res.ok, !.retry_after = res.retry_after]]
         /\ allowed' = IF res.ok
                       THEN [allowed EXCEPT ![<<c.key, c.window_id>>] = @ + 1]
                       ELSE allowed
  /\ UNCHANGED now
  /\ UNCHANGED <<login, updating, store, resp, UPI_SECRET_KEY, DATA_ENC_KEY, token_bytes>>

\* check_rate_limit called and returned within one step of a request: the
\* limiter state it leaves and its verdict
RateCheck(buckets, last_prune, key) ==
  LET rule == RuleOf(key)
      pruned == _maybe_prune(buckets, last_prune, now, rule.window_seconds)
      res == CheckLocked(pruned.buckets, key, rule.limit, rule.window_seconds,
                         now, now \div rule.window_seconds)
  IN  IF rule.limit <= 0 \/ rule.window_seconds <= 0
      THEN [buckets |-> buckets, last_prune |-> last_prune, ok |-> TRUE]
      ELSE [buckets |-> res.buckets, last_prune |-> pruned.last_prune, ok |-> res.ok]

\* the history of allowed calls after a call for key with the verdict ok
Counted(hist, key, ok) ==
  LET kw == <<key, now \div RuleOf(key).window_seconds>> IN
    IF ok /\ RuleOf(key).limit > 0 /\ kw \in DOMAIN hist
    THEN [hist EXCEPT ![kw] = @ + 1] ELSE hist

\* the clock advances
tick(seconds, last) ==
  /\ now + seconds <= last
  /\ now' = now + seconds
  /\ UNCHANGED <<_buckets, _last_prune, calls, allowed>>
  /\ UNCHANGED <<login, updating, store, resp, UPI_SECRET_KEY, DATA_ENC_KEY, token_bytes>>

\* ---- one-time codes and sessions ----

MaxOtps == 1
OtpIds == 1..MaxOtps
NoOtp == [present |-> FALSE]
NoVerify == [pc |-> "idle"]

\* the six-digit codes a client submits, and the salt os.urandom draws
Codes == {123456, 654321}
\* the code secrets.randbelow / os.urandom draws for a new record
DrawnCodes == {123456}
Salts == {3}
\* timedelta(minutes=10) (auth.py:217) and SESSION_TTL_HOURS = 168 (auth.py:144)
OtpTtlSeconds == 600
SessionTtlSeconds == 604800

\* hmac.new(salt, code, sha256).hexdigest() (queries.py:925, 1704; auth.py:270):
\* one digest per pair of salt and code
OtpDigest(salt, code) == salt * 1000000 + code

\* create_otp (queries.py:922-935)
create_otp(rows, record_id, user_id, code, salt, expires_at) ==
  [rows EXCEPT ![record_id] =
     [present |-> TRUE, user_id |-> user_id, digest |-> OtpDigest(salt, code),
      salt |-> salt, expires_at |-> expires_at, consumed |-> FALSE]]

\* get_otp (queries.py:938-942)
get_otp(record_id) == otps[record_id]

\* consume_otp (queries.py:945-949)
consume_otp(rows, record_id) == [rows EXCEPT ![record_id].consumed = TRUE]

\* the id of the next otps row: a fresh secrets.token_urlsafe / uuid4
NextOtpId == Cardinality({o \in OtpIds : otps[o].present}) + 1

\* the check of the record read, shared by verify_otp (queries.py:1684-1707)
\* and login_verify (auth.py:246-273): the reason of the rejection, or "ok"
OtpCheck(record, code) ==
  IF ~record.present THEN "missing"
  ELSE IF record.consumed THEN "used"
  ELSE IF now > record.expires_at THEN "expired"
  ELSE IF OtpDigest(record.salt, code) # record.digest THEN "invalid"
  ELSE "ok"

\* POST /api/auth/login/start (auth.py:194-226) for a registered user with the
\* right password: two rate limits, then a code is drawn and stored
login_start(u, code) ==
  /\ users[u].present
  /\ NextOtpId \in OtpIds
  /\ LET ip == RateCheck(_buckets, _last_prune, "login_start:ip")
         email == RateCheck(ip.buckets, ip.last_prune, "login_start:email")
     IN  IF ~ip.ok
         THEN /\ _buckets' = ip.buckets /\ _last_prune' = ip.last_prune
              /\ allowed' = allowed
              /\ UNCHANGED otps
         ELSE /\ _buckets' = email.buckets /\ _last_prune' = email.last_prune
              /\ allowed' = Counted(Counted(allowed, "login_start:ip", TRUE),
                                    "login_start:email", email.ok)
              /\ IF email.ok
                 THEN \E salt \in Salts :
                        otps' = create_otp(otps, NextOtpId, u, code, salt, now + OtpTtlSeconds)
                 ELSE UNCHANGED otps
  /\ UNCHANGED <<now, calls, sessions, verifying, granted>>
  /\ UNCHANGED <<updating, store, resp, UPI_SECRET_KEY, DATA_ENC_KEY, token_bytes>>

\* create_verification_otp (queries.py:1666-1673)
create_verification_otp(u, code) ==
  /\ users[u].present
  /\ NextOtpId \in OtpIds
  /\ \E salt \in Salts :
       otps' = create_otp(otps, NextOtpId, u, code, salt, now + OtpTtlSeconds)
  /\ UNCHANGED <<limiter, sessions, verifying, granted>>
  /\ UNCHANGED <<updating, store, resp, UPI_SECRET_KEY, DATA_ENC_KEY, token_bytes>>

\* a verification that returned: "ok" when it was granted, else the reason
Verified(op, otp_id, outcome) ==
  [pc |-> "done", op |-> op, otp_id |-> otp_id, outcome |-> outcome]

\* f"login_verify:{payload.login_id}" (auth.py:237); OtpIds holds login id 1 only
LoginVerifyKey(login_id) == "login_verify:1"

\* POST /api/auth/login/verify up to get_otp (auth.py:229-245): the rate limit
\* of the login_id, then the read of the record
login_verify_get_otp(t, login_id, code) ==
  /\ verifying[t].pc # "read"
  /\ LET rl == RateCheck(_buckets, _last_prune, LoginVerifyKey(login_id)) IN
       /\ _buckets' = rl.buckets
       /\ _last_prune' = rl.last_prune
       /\ allowed' = Counted(allowed, LoginVerifyKey(login_id), rl.ok)
       /\ verifying' = [verifying EXCEPT ![t] =
            IF rl.ok
            THEN [pc |-> "read", op |-> "login_verify", otp_id |-> login_id, code |-> code,
                  record |-> get_otp(login_id), outcome |-> "none"]
            ELSE Verified("login_verify", login_id, "limited")]
  /\ UNCHANGED <<now, calls, otps, sessions, granted>>
  /\ UNCHANGED <<updating, store, resp, UPI_SECRET_KEY, DATA_ENC_KEY, token_bytes>>

\* the rest of login_verify (auth.py:246-282) on the record it read:
\* the checks, consume_otp, and a new session for the record's user
login_verify_consume(t) ==
  /\ verifying[t].pc = "read"
  /\ verifying[t].op = "login_verify"
  /\ LET v == verifying[t]
         outcome == OtpCheck(v.record, v.code)
     IN  /\ verifying' = [verifying EXCEPT ![t] = Verified(v.op, v.otp_id, outcome)]
         /\ IF outcome = "ok"
            THEN /\ otps' = consume_otp(otps, v.otp_id)
                 /\ sessions' = create_session(sessions, v.record.user_id)
                 /\ granted' = [granted EXCEPT ![v.otp_id] = @ + 1]
            ELSE UNCHANGED <<otps, sessions, granted>>
  /\ UNCHANGED <<_buckets, _last_prune, now, calls, allowed>>
  /\ UNCHANGED <<updating, store, resp, UPI_SECRET_KEY, DATA_ENC_KEY, token_bytes>>

\* verify_otp up to get_otp (queries.py:1676-1683)
verify_otp_get_otp(t, otp_id, code) ==
  /\ verifying[t].pc # "read"
  /\ verifying' = [verifying EXCEPT ![t] =
       [pc |-> "read", op |-> "verify_otp", otp_id |-> otp_id, code |-> code,
        record |-> get_otp(otp_id), outcome |-> "none"]]
  /\ UNCHANGED <<limiter, otps, sessions, granted>>
  /\ UNCHANGED <<updating, store, resp, UPI_SECRET_KEY, DATA_ENC_KEY, token_bytes>>

\* the rest of verify_otp (queries.py:1684-1709): True after consume_otp
verify_otp_consume(t) ==
  /\ verifying[t].pc = "read"
  /\ verifying[t].op = "verify_otp"
  /\ LET v == verifying[t]
         outcome == OtpCheck(v.record, v.code)
     IN  /\ verifying' = [verifying EXCEPT ![t] = Verified(v.op, v.otp_id, outcome)]
         /\ IF outcome = "ok"
            THEN /\ otps' = consume_otp(otps, v.otp_id)
                 /\ granted' = [granted EXCEPT ![v.otp_id] = @ + 1]
            ELSE UNCHANGED <<otps, granted>>
  /\ UNCHANGED <<limiter, sessions>>
  /\ UNCHANGED <<updating, store, resp, UPI_SECRET_KEY, DATA_ENC_KEY, token_bytes>>

\* _FixedWindowStore.__init__ (ratelimit.py:24-27); the clock starts at Epoch
InitLimiter ==
  /\ _buckets = [key \in RateKeys |-> NoBucket]
  /\ _last_prune = 0
  /\ now = Epoch
  /\ calls = [t \in Threads |-> NoCall]
  /\ allowed = [kw \in RateKeys \X WindowIds |-> 0]

\* the otps and sessions tables of a fresh database
InitLogin ==
  /\ otps = [o \in OtpIds |-> NoOtp]
  /\ sessions = {}
  /\ verifying = [t \in Threads |-> NoVerify]
  /\ granted = [o \in OtpIds |-> 0]

Init ==
  /\ users = [u \in UserIds |-> [present |-> FALSE, master_upi |-> NoUpi]]
  /\ organizations = <<>>
  /\ onboarding_sessions = <<>>
  /\ saved_order = <<>>
  /\ payment_accounts = <<>>
  /\ child_upis = <<>>
  /\ identity_verifications = <<>>
  /\ inflight = <<>>
  /\ updating = <<>>
  /\ resp = NoResp
  /\ UPI_SECRET_KEY = SecretKey
  /\ DATA_ENC_KEY = EncKey
  /\ token_bytes = OneNonce
  /\ InitLimiter
  /\ InitLogin

UsersNow == {v \in UserIds : users[v].present}

\* no response is waiting to be returned: the next request can be served
Idle == resp = NoResp

\* the response leaves the server
send_response ==
  /\ resp # NoResp
  /\ resp' = NoResp
  /\ UNCHANGED <<limiter, login, updating, identity_verifications, UPI_SECRET_KEY, DATA_ENC_KEY, token_bytes, store>>

\* one organization: its identifiers, child identifiers and account statuses
Next ==
  \/ Idle /\ \E u \in UserIds, core \in MasterCoreSegments :
       Cardinality(UsersNow) < MaxUsers /\ signup(u, core)
  \/ Idle /\ \E u \in UserIds, m \in {"call", "id"}, rail \in Rails, core \in CoreSegments :
       Len(organizations) < MaxOrgs /\ onboarding_complete(u, m, rail, core)
  \/ Idle /\ \E s \in SessionIdsNow, core \in CoreSegments : approve_verification(s, core)
  \/ Idle /\ \E s \in SessionIdsNow : reject_verification(s)
  \/ Idle /\ \E o \in OrgIdsNow, core \in CoreSegments : admin_verify_org(o, core)
  \/ Idle /\ \E a \in AccountIdsNow, st \in {"active", "disabled"} :
       update_payment_account(a, st)
  \/ Idle /\ \E u \in UserIds, a \in {0} \cup AccountIdsNow, rail \in Rails,
        cores \in [1..ChildUpiAttempts -> CoreSegments] :
       Len(child_upis) < MaxChildren /\ create_child_upi(u, a, rail, cores)
  \/ Idle /\ \E u \in UserIds, c \in ChildIdsNow : disable_child_upi(u, c)
  \/ Idle /\ \E u \in UserIds, c \in ChildIdsNow : reactivate_child_upi(u, c)
  \/ Idle /\ \E u \in UserIds, x \in ResolveInputs, rail \in Rails : resolve(u, x, rail)
  \/ Idle /\ \E u \in UserIds, x \in LookupInputs : lookup(u, x)
  \/ send_response

Spec == Init /\ [][Next]_vars

\* several organizations, of one owner or of owners who share a namespace
NextCross ==
  \/ Idle /\ \E u \in UserIds, core \in MasterCoreSegments :
       Cardinality(UsersNow) < MaxUsers /\ signup(u, core)
  \/ Idle /\ \E u \in UserIds, m \in {"call", "id"}, rail \in Rails, core \in CoreSegments :
       Len(organizations) < MaxOrgsCross /\ onboarding_complete(u, m, rail, core)
  \/ Idle /\ \E s \in SessionIdsNow, core \in CoreSegments : approve_verification(s, core)
  \/ Idle /\ \E s \in SessionIdsNow : reject_verification(s)
  \/ Idle /\ \E o \in OrgIdsNow, core \in CoreSegments : admin_verify_org(o, core)
  \/ Idle /\ \E u \in UserIds, a \in AccountIdsNow, rail \in Rails,
        cores \in [1..ChildUpiAttempts -> CoreSegments] :
       Len(child_upis) < MaxChildren /\ create_child_upi(u, a, rail, cores)
  \/ Idle /\ \E u \in UserIds, x \in IssuedStrings, rail \in Rails : resolve(u, x, rail)
  \/ send_response

SpecCross == Init /\ [][NextCross]_vars

\* the tags drawn for child identifiers under SpecChild: "AB13", "AB14"
ChildCoreSegments == {<<65, 66, 49, 51>>, <<65, 66, 49, 52>>}
MaxChildrenRetry == 2   \* child identifiers under SpecChild

\* one organization that issues child identifiers; their tags are not the tag of
\* the organization's identifier
NextChild ==
  \/ Idle /\ \E u \in UserIds, core \in MasterCoreSegments :
       Cardinality(UsersNow) < MaxUsers /\ signup(u, core)
  \/ Idle /\ \E u \in UserIds, m \in {"call", "id"}, rail \in Rails, core \in MasterCoreSegments :
       Len(organizations) < MaxOrgs /\ onboarding_complete(u, m, rail, core)
  \/ Idle /\ \E s \in SessionIdsNow, core \in MasterCoreSegments : approve_verification(s, core)
  \/ Idle /\ \E u \in UserIds, a \in {0} \cup AccountIdsNow, rail \in Rails,
        cores \in [1..ChildUpiAttempts -> ChildCoreSegments] :
       /\ Len(child_upis) < MaxChildrenRetry
       /\ Len(payment_accounts) < MaxAccounts
       /\ create_child_upi(u, a, rail, cores)
  \/ Idle /\ \E u \in UserIds, c \in ChildIdsNow : disable_child_upi(u, c)
  \/ send_response

SpecChild == Init /\ [][NextChild]_vars

\* identifiers issued under one signing secret and resolved under another
NextRotate ==
  \/ Idle /\ \E u \in UserIds, core \in MasterCoreSegments :
       Cardinality(UsersNow) < MaxUsers /\ signup(u, core)
  \/ Idle /\ \E u \in UserIds, m \in {"call", "id"}, rail \in Rails, core \in CoreSegments :
       Len(organizations) < MaxOrgsCross /\ onboarding_complete(u, m, rail, core)
  \/ Idle /\ \E s \in SessionIdsNow, core \in CoreSegments : approve_verification(s, core)
  \/ Idle /\ \E secret \in {SecretKey, RotatedSecretKey} : set_UPI_SECRET_KEY(secret)
  \/ Idle /\ \E u \in UserIds, x \in IssuedStrings, rail \in Rails : resolve(u, x, rail)
  \/ send_response

SpecRotate == Init /\ [][NextRotate]_vars

\* identifiers of one organization and its child bindings, resolved as issued
\* and with a non-digit in the payment-index window
NextDecode ==
  \/ Idle /\ \E u \in UserIds, core \in MasterCoreSegments :
       Cardinality(UsersNow) < MaxUsers /\ signup(u, core)
  \/ Idle /\ \E u \in UserIds, rail \in Rails, core \in CoreSegments :
       Len(organizations) < MaxOrgs /\ onboarding_complete(u, "id", rail, core)
  \/ Idle /\ \E u \in UserIds, a \in AccountIdsNow, rail \in Rails,
        cores \in [1..ChildUpiAttempts -> CoreSegments] :
       Len(child_upis) < MaxChildren /\ create_child_upi(u, a, rail, cores)
  \/ Idle /\ \E u \in UserIds, x \in DecodeInputs, rail \in Rails : resolve(u, x, rail)
  \/ send_response

SpecDecode == Init /\ [][NextDecode]_vars

\* the user of the single-organization specifications
IndexUsers == {7}

\* the sensitive fields of a POST /api/accounts payload: the rail's own, or
\* those together with a BIC and an IBAN
AccountPayloadFields(rail) == {RailOwnFields(rail), RailOwnFields(rail) \cup {"swift_bic", "iban"}}

\* payment accounts created with any payload, child identifiers bound to them
NextFields ==
  \/ Idle /\ \E u \in IndexUsers, core \in MasterCoreSegments : signup(u, core)
  \/ Idle /\ \E u \in IndexUsers, rail \in PaymentRails, core \in MasterCoreSegments :
       Len(organizations) < MaxOrgs /\ onboarding_complete(u, "id", rail, core)
  \/ Idle /\ \E u \in IndexUsers, rail \in PaymentRails :
       \E fields \in AccountPayloadFields(rail) :
         /\ inflight = <<>>
         /\ Len(payment_accounts) < MaxAccounts
         /\ create_account_read_index(u, rail, fields)
  \/ Idle /\ \E i \in 1..Len(inflight) : create_account_insert(i)
  \/ Idle /\ \E u \in IndexUsers, a \in AccountIdsNow, core \in CoreSegments :
       /\ Len(child_upis) < MaxChildren
       /\ create_child_upi(u, a, "ACH", [k \in 1..ChildUpiAttempts |-> core])
  \/ Idle /\ \E u \in IndexUsers, x \in IssuedStrings, rail \in PaymentRails : resolve(u, x, rail)
  \/ send_response

SpecFields == Init /\ [][NextFields]_vars

\* the rail fields of a PUT /api/accounts/{account_id} payload
UpdatePayloads == {{"iban"}, {"ach_account"}}
MaxCipherAccounts == 2   \* payment accounts under SpecCipher

\* payment accounts written under one encryption key, updated and read under another
NextCipher ==
  \/ Idle /\ \E u \in IndexUsers, core \in MasterCoreSegments : signup(u, core)
  \/ Idle /\ \E u \in IndexUsers, rail \in Rails, core \in MasterCoreSegments :
       Len(organizations) < MaxOrgs /\ onboarding_complete(u, "id", rail, core)
  \/ Idle /\ \E u \in IndexUsers, rail \in Rails :
       \E fields \in AccountPayloadFields(rail) :
         /\ inflight = <<>>
         /\ Len(payment_accounts) < MaxCipherAccounts
         /\ create_account_read_index(u, rail, fields)
  \/ Idle /\ \E i \in 1..Len(inflight) : create_account_insert(i)
  \/ Idle /\ \E u \in IndexUsers, a \in AccountIdsNow, fields \in UpdatePayloads :
       update_account(u, a, fields)
  \/ Idle /\ \E a \in AccountIdsNow, st \in {"active", "disabled"} :
       update_payment_account(a, st)
  \/ Idle /\ \E key \in {EncKey, RotatedEncKey} : set_DATA_ENC_KEY(key)
  \/ Idle /\ \E u \in IndexUsers, a \in AccountIdsNow, core \in MasterCoreSegments :
       /\ Len(child_upis) < MaxChildren
       /\ create_child_upi(u, a, "ACH", [k \in 1..ChildUpiAttempts |-> core])
  \/ Idle /\ \E u \in IndexUsers, x \in IssuedStrings, rail \in Rails : resolve(u, x, rail)
  \/ send_response

SpecCipher == Init /\ [][NextCipher]_vars

\* the store is empty and the generator can return any of the values of Nonces
InitNonce ==
  /\ users = [u \in UserIds |-> [present |-> FALSE, master_upi |-> NoUpi]]
  /\ organizations = <<>>
  /\ onboarding_sessions = <<>>
  /\ saved_order = <<>>
  /\ payment_accounts = <<>>
  /\ child_upis = <<>>
  /\ identity_verifications = <<>>
  /\ inflight = <<>>
  /\ updating = <<>>
  /\ resp = NoResp
  /\ UPI_SECRET_KEY = SecretKey
  /\ DATA_ENC_KEY = EncKey
  /\ token_bytes = Nonces
  /\ InitLimiter
  /\ InitLogin

\* payment accounts created and updated under one key, every field encryption
\* with a nonce of its own draw
NextNonce ==
  \/ Idle /\ \E u \in IndexUsers, core \in MasterCoreSegments : signup(u, core)
  \/ Idle /\ \E u \in IndexUsers, core \in MasterCoreSegments :
       Len(organizations) < MaxOrgs /\ onboarding_complete(u, "id", "ACH", core)
  \/ Idle /\ \E u \in IndexUsers, rail \in Rails :
       /\ inflight = <<>>
       /\ Len(payment_accounts) < MaxCipherAccounts
       /\ create_account_read_index(u, rail, RailOwnFields(rail))
  \/ Idle /\ \E i \in 1..Len(inflight) : create_account_insert(i)
  \/ Idle /\ \E u \in IndexUsers, a \in AccountIdsNow, fields \in UpdatePayloads :
       update_account(u, a, fields)
  \/ send_response

SpecNonce == InitNonce /\ [][NextNonce]_vars

MaxUpdating == 1   \* update_account requests between their check and their UPDATE

\* accounts edited while child identifiers are issued on them
NextLock ==
  \/ Idle /\ \E u \in IndexUsers, core \in MasterCoreSegments : signup(u, core)
  \/ Idle /\ \E u \in IndexUsers, core \in MasterCoreSegments :
       Len(organizations) < MaxOrgs /\ onboarding_complete(u, "id", "ACH", core)
  \/ Idle /\ \E u \in IndexUsers, rail \in Rails :
       /\ inflight = <<>>
       /\ Len(payment_accounts) < MaxCipherAccounts
       /\ create_account_read_index(u, rail, RailOwnFields(rail))
  \/ Idle /\ \E i \in 1..Len(inflight) : create_account_insert(i)
  \/ Idle /\ \E u \in IndexUsers, a \in AccountIdsNow, fields \in UpdatePayloads :
       /\ Len(updating) < MaxUpdating
       /\ update_account_check(u, a, fields)
  \/ Idle /\ \E i \in 1..Len(updating) : update_account_write(i)
  \/ Idle /\ \E u \in IndexUsers, a \in AccountIdsNow, core \in CoreSegments :
       /\ Len(child_upis) < MaxChildren
       /\ create_child_upi(u, a, "ACH", [k \in 1..ChildUpiAttempts |-> core])
  \/ send_response

SpecLock == InitNonce /\ [][NextLock]_vars

MaxAllowed == 3   \* calls allowed for one key in one window
\* the keys of the callers under SpecLimiter
CheckedKeys == {"login_start:ip", "login_verify:1", "resolve:ip", "global:ip"}

\* concurrent callers of check_rate_limit while the clock advances
NextLimiter ==
  \/ \E t \in Threads, key \in CheckedKeys :
       /\ \A kw \in DOMAIN allowed : allowed[kw] < MaxAllowed
       /\ check_rate_limit(t, key)
  \/ \E t \in Threads : check_locked(t)
  \/ tick(TickSeconds, MaxNow)

SpecLimiter == Init /\ [][NextLimiter]_vars

MaxSessions == 3   \* rows of the sessions table under SpecLogin

\* the verifications that read their record and have not finished
LoginReads == {t \in Threads : verifying[t].pc = "read" /\ verifying[t].op = "login_verify"}

\* one-time codes issued and verified by concurrent requests
NextLogin ==
  \/ Idle /\ \E u \in IndexUsers, core \in MasterCoreSegments : signup(u, core)
  \/ \E u \in IndexUsers, code \in DrawnCodes : login_start(u, code)
  \/ \E u \in IndexUsers, code \in DrawnCodes : create_verification_otp(u, code)
  \/ \E t \in Threads, o \in OtpIds, code \in Codes :
       /\ Cardinality(sessions) + Cardinality(LoginReads) < MaxSessions
       /\ login_verify_get_otp(t, o, code)
  \/ \E t \in Threads : login_verify_consume(t)
  \/ \E t \in Threads, o \in OtpIds, code \in Codes : verify_otp_get_otp(t, o, code)
  \/ \E t \in Threads : verify_otp_consume(t)
  \/ tick(OtpTtlSeconds + 1, Epoch + OtpTtlSeconds + 1)

SpecLogin == Init /\ [][NextLogin]_vars

\* complete_onboarding_tx called with every input, also by a service that lost
\* its signing secret or its encryption key
NextOnboard ==
  \/ Idle /\ \E u \in IndexUsers, core \in MasterCoreSegments : signup(u, core)
  \/ Idle /\ \E u \in IndexUsers, m \in {"call", "id"}, rail \in Rails,
                core \in MasterCoreSegments, has_rail \in BOOLEAN, violation \in Violations :
       /\ Len(organizations) < MaxOrgsCross
       /\ complete_onboarding_tx(u, m, rail, core, has_rail, violation)
  \/ Idle /\ \E secret \in {SecretKey, NoSecret} : set_UPI_SECRET_KEY(secret)
  \/ Idle /\ \E key \in {EncKey, NoKey} : set_DATA_ENC_KEY(key)
  \/ send_response

SpecOnboard == Init /\ [][NextOnboard]_vars

\* ---- sessions (auth.py:94-153, 286-293; queries.py:886-919) ----

\* get_session found no row
NoSession == [token |-> 0, user_id |-> 0, created_at |-> 0, deleted |-> TRUE]

\* get_session (queries.py:886-910): the row whose stored token is the hash of
\* the token, else the row that stores the token itself, which is then
\* rewritten to the hash; with the row, the table the lookup leaves
get_session(rows, token) ==
  LET hashed == {r \in rows : ~r.deleted /\ r.token = hash_session_token(token)}
      legacy == {r \in rows : ~r.deleted /\ r.token = token}
  IN  IF hashed # {} THEN [row |-> CHOOSE r \in hashed : TRUE, rows |-> rows]
      ELSE IF legacy = {} THEN [row |-> NoSession, rows |-> rows]
      ELSE [row |-> CHOOSE r \in legacy : TRUE,
            rows |-> {IF r \in legacy THEN [r EXCEPT !.token = hash_session_token(token)]
                      ELSE r : r \in rows}]

\* delete_session (queries.py:913-919); a deleted row stays as a mark, so that
\* its token is not drawn again
delete_session(rows, token) ==
  {IF ~r.deleted /\ r.token \in {hash_session_token(token), token}
   THEN [r EXCEPT !.deleted = TRUE] ELSE r : r \in rows}

\* get_current_user (auth.py:132-153) for the token of the Authorization header
\* (0: no bearer token) and the aplite_session cookie (0: no cookie): the user,
\* 0 for a 401, and the sessions table it leaves
get_current_user(bearer, cookie) ==
  LET token == IF bearer # 0 THEN bearer ELSE cookie
      found == get_session(sessions, token)
  IN  IF token = 0 THEN [user |-> 0, token |-> 0, rows |-> sessions]
      ELSE IF found.row = NoSession THEN [user |-> 0, token |-> token, rows |-> found.rows]
      ELSE IF now > found.row.created_at + SessionTtlSeconds
      THEN [user |-> 0, token |-> token, rows |-> delete_session(found.rows, token)]
      ELSE [user |-> get_user_by_id(found.row.user_id), token |-> token, rows |-> found.rows]

SessionResponse(op, bearer, cookie, token, user) ==
  [op |-> op, bearer |-> bearer, cookie |-> cookie, token |-> token, user |-> user,
   http |-> IF user = 0 THEN 401 ELSE 200]

\* GET /api/profile (auth.py:296-299)
get_profile(bearer, cookie) ==
  /\ LET auth == get_current_user(bearer, cookie) IN
       /\ sessions' = auth.rows
       /\ resp' = SessionResponse("get_profile", bearer, cookie, auth.token, auth.user)
  /\ UNCHANGED <<limiter, otps, verifying, granted>>
  /\ UNCHANGED <<updating, store, UPI_SECRET_KEY, DATA_ENC_KEY, token_bytes>>

\* POST /api/auth/logout (auth.py:286-293): the dependency get_current_user,
\* then delete_session of the bearer token when the header carries one
logout(bearer, cookie) ==
  /\ LET auth == get_current_user(bearer, cookie) IN
       /\ sessions' = IF auth.user # 0 /\ bearer # 0
                      THEN delete_session(auth.rows, bearer) ELSE auth.rows
       /\ resp' = SessionResponse("logout", bearer, cookie, auth.token, auth.user)
  /\ UNCHANGED <<limiter, otps, verifying, granted>>
  /\ UNCHANGED <<updating, store, UPI_SECRET_KEY, DATA_ENC_KEY, token_bytes>>

\* the users that sign up under SpecSession, and the values clients present:
\* the tokens of their first sessions and the stored hash of one of them
SessionUsers == {7, 42}
PresentedTokens == {71, 421, hash_session_token(71)}

\* sessions opened at signup, used, closed by logout, and outlived
NextSession ==
  \/ Idle /\ \E u \in SessionUsers, core \in MasterCoreSegments : signup(u, core)
  \/ Idle /\ \E bearer \in {0} \cup PresentedTokens, cookie \in {0} \cup PresentedTokens :
       get_profile(bearer, cookie)
  \/ Idle /\ \E bearer \in {0} \cup PresentedTokens, cookie \in {0} \cup PresentedTokens :
       logout(bearer, cookie)
  \/ tick(SessionTtlSeconds + 1, Epoch + SessionTtlSeconds + 1)
  \/ send_response

SpecSession == Init /\ [][NextSession]_vars

\* two organizations of different owners that add payment accounts and bind
\* child identifiers to their own and to each other's accounts
NextBind ==
  \/ Idle /\ \E u \in UserIds, core \in MasterCoreSegments :
       Cardinality(UsersNow) < MaxUsers /\ signup(u, core)
  \/ Idle /\ \E u \in UserIds, m \in {"call", "id"}, rail \in Rails, core \in MasterCoreSegments :
       Len(organizations) < MaxOrgsCross /\ onboarding_complete(u, m, rail, core)
  \/ Idle /\ \E s \in SessionIdsNow, core \in MasterCoreSegments : approve_verification(s, core)
  \/ Idle /\ \E u \in UserIds, a \in {0} \cup AccountIdsNow, rail \in Rails,
        cores \in [1..ChildUpiAttempts -> ChildCoreSegments] :
       /\ Len(child_upis) < MaxChildrenRetry
       /\ Len(payment_accounts) < MaxAccounts
       /\ create_child_upi(u, a, rail, cores)
  \/ send_response

SpecBind == Init /\ [][NextBind]_vars

\* a service restarted with the signing secret or the encryption key unset
NextConfig ==
  \/ Idle /\ \E u \in IndexUsers, core \in MasterCoreSegments : signup(u, core)
  \/ Idle /\ \E u \in IndexUsers, m \in {"call", "id"}, rail \in Rails, core \in MasterCoreSegments :
       Len(organizations) < MaxOrgs /\ onboarding_complete(u, m, rail, core)
  \/ Idle /\ \E s \in SessionIdsNow, core \in MasterCoreSegments : approve_verification(s, core)
  \/ Idle /\ \E u \in IndexUsers, a \in {0} \cup AccountIdsNow, rail \in Rails, core \in CoreSegments :
       /\ Len(child_upis) < MaxChildren
       /\ Len(payment_accounts) < MaxCipherAccounts
       /\ create_child_upi(u, a, rail, [k \in 1..ChildUpiAttempts |-> core])
  \/ Idle /\ \E secret \in {SecretKey, NoSecret} : set_UPI_SECRET_KEY(secret)
  \/ Idle /\ \E key \in {EncKey, NoKey} : set_DATA_ENC_KEY(key)
  \/ Idle /\ \E u \in IndexUsers, x \in IssuedStrings, rail \in Rails : resolve(u, x, rail)
  \/ send_response

SpecConfig == Init /\ [][NextConfig]_vars

\* concurrent POST /api/accounts requests of one organization
NextAccounts ==
  \/ Idle /\ \E u \in UserIds, core \in MasterCoreSegments :
       Cardinality(UsersNow) < MaxUsers /\ signup(u, core)
  \/ Idle /\ \E u \in UserIds, m \in {"call", "id"}, rail \in Rails, core \in CoreSegments :
       Len(organizations) < MaxOrgs /\ onboarding_complete(u, m, rail, core)
  \/ Idle /\ \E s \in SessionIdsNow, core \in CoreSegments : approve_verification(s, core)
  \/ Idle /\ \E u \in UserIds, rail \in Rails :
       /\ Len(inflight) < MaxInflight
       /\ Len(payment_accounts) + Len(inflight) < MaxAccounts
       /\ create_account_read_index(u, rail, RailOwnFields(rail))
  \/ Idle /\ \E i \in 1..Len(inflight) : create_account_insert(i)
  \/ Idle /\ \E a \in AccountIdsNow, st \in {"active", "disabled"} :
       update_payment_account(a, st)

SpecAccounts == Init /\ [][NextAccounts]_vars

\* one organization that keeps adding payment accounts, one request at a time,
\* and issues a child identifier for the newest one
NextIndex ==
  \/ Idle /\ \E u \in IndexUsers, core \in MasterCoreSegments : signup(u, core)
  \/ Idle /\ \E u \in IndexUsers, core \in MasterCoreSegments :
       Len(organizations) < MaxOrgs /\ onboarding_complete(u, "id", "ACH", core)
  \/ Idle /\ \E u \in IndexUsers :
       /\ inflight = <<>>
       /\ Len(payment_accounts) < MaxIndexAccounts
       /\ create_account_read_index(u, "ACH", RailOwnFields("ACH"))
  \/ Idle /\ \E i \in 1..Len(inflight) : create_account_insert(i)
  \/ Idle /\ \E u \in IndexUsers, core \in MasterCoreSegments :
       /\ Len(child_upis) < MaxChildren
       /\ create_child_upi(u, Len(payment_accounts), "ACH",
                           [k \in 1..ChildUpiAttempts |-> core])
  \/ send_response

SpecIndex == Init /\ [][NextIndex]_vars

\* the codec functions applied to every tag, payment index and owner
NextCodec ==
  \/ Idle /\ \E tag \in CoreEntityTags, index \in PaymentIndexes, owner \in UserIds :
       generate_parse_verify(tag, index, owner)
  \/ Idle /\ \E tag \in CoreEntityTags : extract_core_segment(tag)
  \/ send_response

SpecCodec == Init /\ [][NextCodec]_vars

(***************************************************************************)
(* Properties.                                                             *)
(***************************************************************************)
\* the users resolve_upi serves
VerifiedUsers == {u \in UserIds : is_user_verified(u)}

\* x and y have the same length and differ at exactly one position
OneOff(x, y) ==
  Len(x) = Len(y) /\ Cardinality({i \in 1..Len(x) : x[i] # y[i]}) = 1

\* the response of a resolve request served for a verified caller
ResolvedFor == resp.op = "resolve" /\ is_user_verified(resp.caller)

\* the upper-cased string leaves the alphabet or has a non-digit payment index
Unparsable(y) == ~validate_upi_format(StrUpper(y)) \/ ~PaymentIndexParses(StrUpper(y))

\* C1 as stated: resolving a string that differs from a stored identifier in
\* exactly one character position ends SIGNATURE_ERROR or FORMAT_ERROR.
C1_SignatureOrFormatError ==
  \A x \in StoredStrings :
    (ResolvedFor /\ OneOff(resp.payload, x))
      => resp.outcome \in {"SIGNATURE_ERROR", "FORMAT_ERROR"}

\* C1, amended: for every stored identifier X and every string whose upper-cased
\* form differs from X in exactly one character position and is not itself an
\* identifier some binding holds, every rail and every verified caller, resolve
\* ends NOT_FOUND (404), or FORMAT_ERROR (400) when the upper-cased string does
\* not parse, and never RESOLVED.  (A property of the store: it is evaluated in
\* the states where the server is idle.)
C1_TamperedNotFound ==
  Idle =>
    \A x \in StoredStrings : \A y \in Tampered(x) : \A rail \in Rails : \A caller \in VerifiedUsers :
      (StrUpper(y) # x /\ StrUpper(y) \notin IssuedStrings) =>
        \A r \in resolve_upi(y, rail, caller) :
          IF Unparsable(y)
          THEN r.outcome = "FORMAT_ERROR" /\ r.http = 400
          ELSE r.outcome = "NOT_FOUND" /\ r.http = 404

\* C1 witness: a verified caller has submitted a tampered copy of an identifier
\* that resolves, and the request ended NOT_FOUND
C1_Witness ==
  /\ ResolvedFor
  /\ resp.outcome = "NOT_FOUND"
  /\ \E x \in IssuedStrings :
       /\ OneOff(resp.payload, x)
       /\ StrUpper(resp.payload) # x
       /\ \E r \in resolve_upi(x, resp.rail, resp.caller) : r.outcome = "RESOLVED"

\* the segments of an identifier string
NamespaceOf(upi) == Slice(upi, 0, NAMESPACE_LENGTH)
SignatureOf(upi) == Slice(upi, UPI_LENGTH - SIGNATURE_LENGTH, UPI_LENGTH)

\* C2: every resolve request that ends RESOLVED, through either branch, has run
\* verify_upi inside the request: it recomputed the namespace of the owning user and
\* the signature of the decoded (namespace, core segment, payment index), and both
\* equal the segments of the identifier it resolved.
C2_ResolvedVerifiedInRequest ==
  (resp.op = "resolve" /\ resp.outcome = "RESOLVED") =>
    LET owner == organizations[resp.org].user_id
        parsed == parse_upi(resp.upi)
    IN  /\ resp.check.done
        /\ resp.check.ok
        /\ resp.check.expected_ns = _namespace_for_user(owner)
        /\ resp.check.expected_ns = NamespaceOf(resp.upi)
        /\ resp.check.expected_sig =
             _signature(parsed.namespace, _extract_core_segment(parsed.core_entity_id),
                        parsed.payment_index)
        /\ resp.check.expected_sig = SignatureOf(resp.upi)

\* C2 witness: a request has ended RESOLVED through the child binding
C2_Witness ==
  /\ resp.op = "resolve"
  /\ resp.outcome = "RESOLVED"
  /\ resp.branch = "child"
  /\ resp.account \in AccountIdsNow

\* the organizations that hold the string, and the child bindings that hold it
OrgsHolding(upi) == {o \in OrgIdsNow : organizations[o].upi = upi}
ChildrenHolding(upi) == {c \in ChildIdsNow : child_upis[c].upi = upi}

\* C3 as stated: a resolve of an identifier issued to one owner never returns a
\* payment account that belongs to a different owner, shared namespaces included.
\* (Stated for the identifier of an organization that no other organization holds.)
C3_NoCrossOwnerCoordinates ==
  (/\ resp.op = "resolve"
   /\ resp.outcome = "RESOLVED"
   /\ Cardinality(OrgsHolding(resp.upi)) = 1) =>
    \A o \in OrgsHolding(resp.upi) :
      organizations[o].user_id = payment_accounts[resp.account].user_id

\* C4 as stated: a request ends RESOLVED only if the organization it reached has
\* verification status 'verified', a status that is neither 'deactivated' nor
\* 'disabled', and a verified owning user.  (Stated for the identifiers that a
\* single binding holds, so that the organization reached is the only candidate.)
C4_ResolvedOnlyIfVerified ==
  (/\ resp.op = "resolve"
   /\ resp.outcome = "RESOLVED"
   /\ Cardinality(OrgsHolding(resp.upi)) + Cardinality(ChildrenHolding(resp.upi)) = 1) =>
    /\ organizations[resp.org].verification_status = "verified"
    /\ organizations[resp.org].status \notin {"deactivated", "disabled"}
    /\ is_user_verified(organizations[resp.org].user_id)

\* C5: while a child binding is 'disabled', every resolve of its identifier by a
\* verified caller ends GONE (410) without coordinates, for every rail, and the
\* string still passes validate_upi_format and verify_upi for its owner.
C5_DisabledChildGone ==
  Idle =>
    \A c \in ChildIdsNow :
      child_upis[c].status = "disabled" =>
        /\ \A rail \in Rails : \A caller \in VerifiedUsers :
             \A r \in resolve_upi(child_upis[c].upi, rail, caller) :
               r.outcome = "GONE" /\ r.http = 410 /\ r.account = 0
        /\ validate_upi_format(child_upis[c].upi)
        /\ verify_upi(child_upis[c].upi, organizations[child_upis[c].org_id].user_id)

\* C5 witness: a verified caller has resolved the identifier of a disabled child
\* binding and the request ended GONE
C5_Witness ==
  /\ ResolvedFor
  /\ resp.outcome = "GONE"
  /\ resp.http = 410
  /\ \E c \in ChildrenHolding(resp.upi) : child_upis[c].status = "disabled"

OnboardingAccountOf(o) ==
  get_onboarding_payment_account(get_latest_onboarding_session_by_org(o))

\* organization, owner and account of a binding are verified and active
OrgBindingLive(o) ==
  /\ organizations[o].verification_status = "verified"
  /\ organizations[o].status = "active"
  /\ is_user_verified(organizations[o].user_id)
  /\ payment_accounts[OnboardingAccountOf(o)].status = "active"

ChildBindingLive(c) ==
  /\ child_upis[c].status = "active"
  /\ organizations[child_upis[c].org_id].verification_status = "verified"
  /\ organizations[child_upis[c].org_id].status = "active"
  /\ is_user_verified(organizations[child_upis[c].org_id].user_id)
  /\ payment_accounts[child_upis[c].payment_account_id].status = "active"

C8_StringBoundOnce ==
  /\ \A c, d \in ChildIdsNow : child_upis[c].upi = child_upis[d].upi => c = d
  /\ \A o, q \in OrgIdsNow :
       (organizations[o].upi # NoUpi /\ organizations[o].upi = organizations[q].upi) => o = q
  /\ \A c \in ChildIdsNow : \A o \in OrgIdsNow : child_upis[c].upi # organizations[o].upi
  /\ \A c \in ChildIdsNow : \A u \in UsersNow : child_upis[c].upi # users[u].master_upi

\* C9 as stated: within an organization the payment indexes grow strictly in
\* the order the accounts were created, so no index is given twice.
C9_IndexStrictlyIncreasing ==
  \A a, b \in AccountIdsNow :
    (a < b /\ payment_accounts[a].org_id = payment_accounts[b].org_id)
      => payment_accounts[a].payment_index < payment_accounts[b].payment_index

\* C10 as stated: once an organization holds a non-empty identifier string, no
\* step replaces or alters it.
C10_IdentifierNeverReplaced ==
  [][\A o \in OrgIdsNow :
       organizations[o].upi # NoUpi => organizations'[o].upi = organizations[o].upi]_vars

\* C11 as stated: every identifier string the store holds is exactly 14 characters
\* over A-Z/0-9, with a two-digit payment index, and passes validate_upi_format,
\* however many payment accounts the organization has.
C11_IdentifierWellFormed ==
  \A x \in StoredStrings :
    /\ Len(x) = UPI_LENGTH
    /\ validate_upi_format(x)
    /\ PaymentIndexParses(x)

\* the number of rows (organizations, child bindings, users) that hold the string
HoldersIn(orgs, children, usrs, upi) ==
  Cardinality({o \in 1..Len(orgs) : orgs[o].upi = upi})
    + Cardinality({c \in 1..Len(children) : children[c].upi = upi})
    + Cardinality({u \in UserIds : usrs[u].present /\ usrs[u].master_upi = upi})

\* C12 as stated: a child-identifier request makes at most 3 attempts and ends in
\* one of two ways: exactly one child binding was inserted and it holds a string no
\* other row of the store holds, or all 3 attempts collided, the request failed with
\* the exhaustion error and no child binding was inserted.
C12_ChildIssuanceBounded ==
  [][(resp = NoResp /\ resp' # NoResp /\ resp'.op = "create_child_upi") =>
       /\ resp'.tried <= ChildUpiAttempts
       /\ \/ /\ resp'.outcome = "CREATED"
             /\ Len(child_upis') = Len(child_upis) + 1
             /\ SubSeq(child_upis', 1, Len(child_upis)) = child_upis
             /\ child_upis'[Len(child_upis')].upi = resp'.upi
             /\ HoldersIn(organizations', child_upis', users', resp'.upi) = 1
          \/ /\ resp'.outcome = "UNIQUE_EXHAUSTED"
             /\ resp'.collided = ChildUpiAttempts
             /\ child_upis' = child_upis]_vars

\* the users who own a row that holds the string
OwnersOf(upi) ==
  {organizations[o].user_id : o \in OrgsHolding(upi)}
    \cup {organizations[child_upis[c].org_id].user_id : c \in ChildrenHolding(upi)}

\* C13 as stated: a resolve, by a verified caller, of a stored identifier whose
\* owner is not (or no longer) verified ends NOT_FOUND (404), the response given
\* for a string that was never issued.
C13_RevokedOwnerNotFound ==
  (/\ ResolvedFor
   /\ OwnersOf(resp.upi) # {}
   /\ \A owner \in OwnersOf(resp.upi) : ~is_user_verified(owner)) =>
    (resp.outcome = "NOT_FOUND" /\ resp.http = 404)

\* a request that went through the primary binding and reached verify_upi
PrimaryVerified == ResolvedFor /\ resp.branch = "primary" /\ resp.check.done

\* the stored identifier's namespace is not the namespace of the owning user
NamespaceMismatch ==
  NamespaceOf(resp.upi) # _namespace_for_user(organizations[resp.org].user_id)

\* the namespace matches and the signature is not the one recomputed from
\* (namespace, core segment, payment index)
SignatureMismatch ==
  /\ ~NamespaceMismatch
  /\ SignatureOf(resp.upi) #
       _signature(parse_upi(resp.upi).namespace,
                  _extract_core_segment(parse_upi(resp.upi).core_entity_id),
                  parse_upi(resp.upi).payment_index)

\* C14 as stated: on the primary path a namespace mismatch ends NOT_FOUND and a
\* signature mismatch under a matching namespace ends SIGNATURE_ERROR.
C14_SignatureErrorDistinct ==
  PrimaryVerified =>
    /\ NamespaceMismatch => resp.outcome = "NOT_FOUND"
    /\ SignatureMismatch => resp.outcome = "SIGNATURE_ERROR"

\* the terminal states of a resolution request
TerminalStates == {"RESOLVED", "NOT_FOUND", "FORMAT_ERROR", "SIGNATURE_ERROR", "GONE"}

\* C15 as stated: every resolve request of a verified caller ends in one of the
\* terminal states RESOLVED, NOT_FOUND, FORMAT_ERROR, SIGNATURE_ERROR, GONE.
C15_TerminalStatesOnly ==
  ResolvedFor => resp.outcome \in TerminalStates

\* C16: whenever a child binding holds the submitted string, the request of a
\* verified caller is answered by the child branch alone, also when an
\* organization holds the same string: a binding that is not active ends GONE,
\* and a RESOLVED response carries the binding's organization and linked account.
C16_ChildBindingFirst ==
  (ResolvedFor /\ ChildrenHolding(resp.upi) # {}) =>
    \A c \in ChildrenHolding(resp.upi) :
      /\ resp.branch = "child"
      /\ child_upis[c].status # "active" => resp.outcome = "GONE"
      /\ resp.outcome = "RESOLVED" =>
           /\ resp.account = child_upis[c].payment_account_id
           /\ resp.org = child_upis[c].org_id

\* C16 witness: a disabled child binding and a live organization hold the same
\* string, and the request ended GONE through the child branch
C16_Witness ==
  /\ ResolvedFor
  /\ resp.branch = "child"
  /\ resp.outcome = "GONE"
  /\ \E o \in OrgsHolding(resp.upi) : OrgBindingLive(o)

\* C17: a resolve request of a caller who is not verified is refused (403) at the
\* caller check, before format validation and before any child-binding,
\* organization or payment-account lookup, whatever the string and the store;
\* it carries no organization, no account and no verification result.
C17_UnverifiedCallerRefused ==
  (resp.op = "resolve" /\ ~is_user_verified(resp.caller)) =>
    /\ resp.outcome = "FORBIDDEN"
    /\ resp.http = 403
    /\ resp.branch = "caller"
    /\ resp.org = 0
    /\ resp.account = 0
    /\ ~resp.check.done

\* C17 witness: a caller who is not verified has been refused for an identifier
\* that resolves for a verified caller
C17_Witness ==
  /\ resp.op = "resolve"
  /\ ~is_user_verified(resp.caller)
  /\ resp.outcome = "FORBIDDEN"
  /\ \E other \in VerifiedUsers :
       \E r \in resolve_upi(resp.payload, resp.rail, other) : r.outcome = "RESOLVED"

\* the upper-cased string is not 14 characters long or leaves A-Z/0-9
IllFormed(s) ==
  Len(s) # UPI_LENGTH \/ \E i \in 1..Len(s) : UpperChar(s[i]) \notin ALPHABET

\* C18: a resolve request of a verified caller, and a lookup request, for a
\* string whose upper-cased form is not 14 characters over A-Z/0-9 ends
\* FORMAT_ERROR (400) at the format check, before any child-binding or
\* organization lookup, signature computation or payment-account lookup.
C18_IllFormedRejectedFirst ==
  /\ (ResolvedFor /\ IllFormed(resp.payload)) =>
       /\ resp.outcome = "FORMAT_ERROR"
       /\ resp.http = 400
       /\ resp.branch = "format"
       /\ resp.org = 0
       /\ resp.account = 0
       /\ ~resp.check.done
  /\ (resp.op = "lookup" /\ IllFormed(resp.payload)) =>
       /\ resp.outcome = "FORMAT_ERROR"
       /\ resp.http = 400
       /\ resp.branch = "format"
       /\ resp.org = 0

\* C18 witness: a verified caller has submitted a 14-character copy of a stored
\* identifier with one character outside the alphabet, and was refused
C18_Witness ==
  /\ ResolvedFor
  /\ resp.outcome = "FORMAT_ERROR"
  /\ resp.branch = "format"
  /\ Len(resp.payload) = UPI_LENGTH
  /\ \E x \in IssuedStrings : OneOff(resp.payload, x)

\* str.strip(): leading and trailing whitespace removed
Whitespace == {32, 9, 10, 13}
RECURSIVE Strip(_)
Strip(s) ==
  IF Len(s) = 0 THEN s
  ELSE IF s[1] \in Whitespace THEN Strip(Tail(s))
  ELSE IF s[Len(s)] \in Whitespace THEN Strip(SubSeq(s, 1, Len(s) - 1))
  ELSE s

\* C19 as stated: resolve(s, rail) has the outcome of resolve(upper(trim(s)), rail).
C19_NormalizedSameOutcome ==
  ResolvedFor =>
    \A r \in resolve_upi(StrUpper(Strip(resp.payload)), resp.rail, resp.caller) :
      r.outcome = resp.outcome

\* C20 as stated: a request resolved for rail r decrypts and returns only the
\* sensitive fields relevant to r, whatever the account's enc map holds.
C20_OnlyRailFields ==
  (resp.op = "resolve" /\ resp.outcome = "RESOLVED") =>
    /\ resp.decrypted \subseteq RailCoordinateFields(resp.rail)
    /\ resp.coordinates \subseteq RailCoordinateFields(resp.rail)

\* the keys of the coordinates object the contract gives for a rail
CoordinateKeys(rail) ==
  IF rail = "ACH" THEN {"routing_number", "account_number", "bank_name"}
  ELSE IF rail = "WIRE_DOM" THEN {"routing_number", "account_number", "bank_name", "bank_address"}
  ELSE {"swift_bic", "iban", "bank_name", "bank_address", "bank_country", "bank_city"}

\* C21: the coordinates of a RESOLVED response have exactly the keys of the
\* requested rail (ACH: routing number, account number, bank name; WIRE_DOM: those
\* and bank address; SWIFT: BIC, IBAN, bank name, bank address, bank country, bank
\* city, and no routing or account number), and the child branch and the primary
\* branch build the same record for the same rail and account.
C21_CoordinatesByRail ==
  (resp.op = "resolve" /\ resp.outcome = "RESOLVED") =>
    /\ DOMAIN resp.coordinate_record = CoordinateKeys(resp.rail)
    /\ resp.coordinate_record = ChildCoordinates(resp.rail, resp.account)
    /\ resp.coordinate_record = PrimaryCoordinates(resp.rail, resp.account)

\* C21 witness: a child identifier bound to a WIRE_DOM account has been resolved
C21_Witness ==
  /\ resp.op = "resolve"
  /\ resp.outcome = "RESOLVED"
  /\ resp.rail = "WIRE_DOM"
  /\ resp.branch = "child"
  /\ resp.coordinate_record.routing_number = "wire_routing"

\* the payment accounts of a rail that the bindings of a string lead to: the
\* accounts linked by the child bindings that hold it, and the accounts at the
\* decoded payment index of the organizations that hold it
BoundAccountsFor(upi, rail) ==
  {a \in AccountIdsNow :
     /\ payment_accounts[a].rail = rail
     /\ \/ \E c \in ChildrenHolding(upi) : child_upis[c].payment_account_id = a
        \/ /\ ~ParseFails(upi)
           /\ \E o \in OrgsHolding(upi) :
                /\ payment_accounts[a].org_id = o
                /\ payment_accounts[a].payment_index = parse_upi(upi).payment_index}

\* a verified caller has resolved a stored identifier for a rail on which none of
\* its bindings has a payment account
WrongRailRequest ==
  /\ ResolvedFor
  /\ resp.upi \in IssuedStrings
  /\ BoundAccountsFor(resp.upi, resp.rail) = {}

\* C22 as stated: resolve(X, r) ends NOT_FOUND whenever the payment account bound
\* to X does not exist for rail r.
C22_WrongRailNotFound ==
  WrongRailRequest => (resp.outcome = "NOT_FOUND" /\ resp.http = 404)

\* C22, amended: when no payment account bound to X exists for rail r, resolve(X, r)
\* never ends RESOLVED and returns no account and no coordinates, in either
\* branch; it ends NOT_FOUND (404) unless the request ended before the account
\* lookup, which happens only with GONE (410) for a child binding that is not
\* active and with 403 for an owner who is not verified.
C22_WrongRailNeverResolved ==
  WrongRailRequest =>
    /\ resp.outcome # "RESOLVED"
    /\ resp.account = 0
    /\ resp.coordinate_record = <<>>
    /\ resp.outcome \in {"NOT_FOUND", "GONE", "FORBIDDEN"}
    /\ resp.outcome = "NOT_FOUND" => resp.http = 404
    /\ resp.outcome = "GONE" =>
         \E c \in ChildrenHolding(resp.upi) : child_upis[c].status # "active"
    /\ resp.outcome = "FORBIDDEN" =>
         \E owner \in OwnersOf(resp.upi) : ~is_user_verified(owner)

\* C22 witness: a child identifier that verifies and is bound to an ACH account has
\* been resolved for SWIFT, and the request ended NOT_FOUND at the rail check
C22_Witness ==
  /\ WrongRailRequest
  /\ resp.branch = "child"
  /\ resp.rail = "SWIFT"
  /\ resp.check.ok
  /\ resp.outcome = "NOT_FOUND"
  /\ \E c \in ChildrenHolding(resp.upi) :
       /\ child_upis[c].payment_account_id \in AccountIdsNow
       /\ payment_accounts[child_upis[c].payment_account_id].rail = "ACH"

\* the entries of the account's enc map that were sealed under the key
DecryptableIn(accts, key, account) ==
  {field \in DOMAIN accts[account].enc : key # NoKey /\ accts[account].enc[field].c.key = key}

\* C23: a resolve request that reads a payment-account record decrypts exactly the
\* entries of its enc map whose decryption succeeds: an entry that fails (sealed
\* under another key) is left out of the output and reads as None, every other
\* entry is still decrypted and returned, and the request ends RESOLVED (200).
C23_FailedFieldOmitted ==
  (resp.op = "resolve" /\ resp.account # 0) =>
    LET decryptable == DecryptableIn(payment_accounts, DATA_ENC_KEY, resp.account) IN
      /\ resp.outcome = "RESOLVED"
      /\ resp.http = 200
      /\ resp.decrypted = decryptable
      /\ resp.coordinates = RailCoordinateFields(resp.rail) \cap decryptable
      /\ \A field \in DOMAIN payment_accounts[resp.account].enc :
           AccountGet(resp.account, field) = IF field \in decryptable THEN field ELSE "None"

\* C23 witness: a SWIFT account whose BIC fails to decrypt and whose IBAN decrypts
\* has been resolved; the response carries the IBAN and no BIC
C23_Witness ==
  /\ resp.op = "resolve"
  /\ resp.outcome = "RESOLVED"
  /\ resp.rail = "SWIFT"
  /\ DecryptFails(payment_accounts[resp.account].enc["swift_bic"])
  /\ resp.coordinate_record.swift_bic = "None"
  /\ resp.coordinate_record.iban = "iban"

\* the row holds its sensitive fields as ciphertext only: none in a column of its
\* own, and each entry of the enc map is one nonce and ciphertext pair, keyed by
\* the name of the field whose value it seals
StoredEncrypted(row) ==
  /\ row.columns = {}
  /\ DOMAIN row.enc \subseteq sensitive_fields
  /\ \A field \in DOMAIN row.enc :
       /\ DOMAIN row.enc[field] = {"n", "c"}
       /\ row.enc[field].c.value = field
       /\ row.enc[field].c.key # NoKey

StoredStringsIn(orgs, children, usrs) ==
  {orgs[o].upi : o \in {x \in 1..Len(orgs) : orgs[x].upi # NoUpi}}
    \cup {children[c].upi : c \in 1..Len(children)}
    \cup {usrs[u].master_upi : u \in {v \in UserIds : usrs[v].present /\ usrs[v].master_upi # NoUpi}}

\* C25 as stated: while the signing secret is absent no identifier is issued and no
\* resolve ends RESOLVED; while the encryption key is absent no sensitive field is
\* written to storage in plaintext and no resolve ends RESOLVED.
C25_MissingConfigFatal ==
  [][/\ LoadSecretFails =>
          /\ StoredStringsIn(organizations', child_upis', users')
                \subseteq StoredStringsIn(organizations, child_upis, users)
          /\ (resp'.op = "resolve" => resp'.outcome # "RESOLVED")
     /\ LoadKeyFails =>
          /\ \A a \in 1..Len(payment_accounts') : StoredEncrypted(payment_accounts'[a])
          /\ (resp'.op = "resolve" => resp'.outcome # "RESOLVED")]_vars

\* C26: for every owner id, core-entity tag and payment index in 0..99,
\* parse_upi(generate_upi(tag, index, owner)) succeeds and yields that payment
\* index and a core entity id whose derived core segment is the segment derived
\* from the tag, and verify_upi(generate_upi(tag, index, owner), owner) is true.
C26_GenerateParseRoundTrip ==
  resp.op = "generate_upi" =>
    /\ resp.parsed.ok
    /\ resp.parsed.payment_index = resp.payment_index
    /\ _extract_core_segment(resp.parsed.core_entity_id) = _extract_core_segment(resp.core_entity_id)
    /\ resp.verified

\* C26 witness: an identifier generated for the tag "core-x9" and payment index 7
\* has been parsed and verified
C26_Witness ==
  /\ resp.op = "generate_upi"
  /\ resp.core_entity_id = <<99, 111, 114, 101, 45, 120, 57>>
  /\ resp.payment_index = 7
  /\ resp.parsed.ok
  /\ resp.parsed.payment_index = 7
  /\ resp.verified

\* str.rjust(width, "0"): pads on the left
RECURSIVE RJust0(_, _)
RJust0(s, width) == IF Len(s) >= width THEN s ELSE RJust0(<<Ch0>> \o s, width)

\* the derivation as the contract words it: the part after the first '-',
\* upper-cased, filtered to the alphabet, left-padded with '0' or truncated to 4
LeftPaddedSegment(tag) ==
  LET kept == FilterAlphabet(StrUpper(AfterFirstDash(tag)))
  IN  IF Len(kept) < CORE_SEGMENT_LENGTH THEN RJust0(kept, CORE_SEGMENT_LENGTH)
      ELSE SubSeq(kept, 1, CORE_SEGMENT_LENGTH)

\* C27 as stated: _extract_core_segment maps every tag to exactly 4 characters of
\* the alphabet, namely the part after the first '-', upper-cased and filtered,
\* left-padded with '0' when shorter than 4 and truncated to its first 4 when
\* longer; applied to "CORE-" followed by its own result it returns that result.
C27_CoreSegmentDerivation ==
  resp.op = "_extract_core_segment" =>
    /\ Len(resp.segment) = CORE_SEGMENT_LENGTH
    /\ \A i \in 1..Len(resp.segment) : resp.segment[i] \in ALPHABET
    /\ resp.segment = LeftPaddedSegment(resp.core_entity_id)
    /\ resp.again = resp.segment

\* the identifiers a store holds for one owner: the master identifier, the
\* identifiers of the owner's organizations and their child identifiers
OwnerStringsIn(usrs, orgs, children, u) ==
  {usrs[v].master_upi : v \in {w \in {u} : usrs[w].present /\ usrs[w].master_upi # NoUpi}}
    \cup {orgs[o].upi : o \in {x \in 1..Len(orgs) : orgs[x].user_id = u /\ orgs[x].upi # NoUpi}}
    \cup {children[c].upi : c \in {x \in 1..Len(children) : orgs[children[x].org_id].user_id = u}}

OwnerStrings(u) == OwnerStringsIn(users, organizations, child_upis, u)

\* all of them carry the namespace that verify_upi recomputes for the owner
NamespaceAgrees(u) == \A x \in OwnerStrings(u) : NamespaceOf(x) = _namespace_for_user(u)

SetsChildStatus(c) ==
  /\ Len(child_upis') = Len(child_upis)
  /\ child_upis'[c].status # child_upis[c].status

\* the strings the step is not about: the other child bindings of the same
\* payment account and the primary identifier of the organization
StringsBeside(c) ==
  {child_upis[d].upi : d \in {x \in ChildIdsNow \ {c} :
      child_upis[x].payment_account_id = child_upis[c].payment_account_id}}
    \cup {organizations[o].upi : o \in {x \in {child_upis[c].org_id} : organizations[x].upi # NoUpi}}

\* the child_upis rows that resolve_upi reads for a string
\* (get_child_upi_by_value), taken from a given table
ChildRowsRead(children, x) == {children[d] : d \in {k \in 1..Len(children) : children[k].upi = x}}

\* C29 as stated: a disable or reactivate of one child binding changes only that
\* binding's status and disabled_at; every other child binding, every payment
\* account and every organization is unchanged, and the other child identifiers
\* of the same account and the organization's primary identifier resolve exactly
\* as before: every row and both secrets that resolve_upi reads for them are
\* the same after the step as before it.
C29_ChildStatusFrame ==
  [][\A c \in ChildIdsNow : SetsChildStatus(c) =>
       /\ \A d \in ChildIdsNow \ {c} : child_upis'[d] = child_upis[d]
       /\ child_upis'[c].org_id = child_upis[c].org_id
       /\ child_upis'[c].payment_account_id = child_upis[c].payment_account_id
       /\ child_upis'[c].upi = child_upis[c].upi
       /\ payment_accounts' = payment_accounts
       /\ organizations' = organizations
       /\ users' = users
       /\ onboarding_sessions' = onboarding_sessions
       /\ UPI_SECRET_KEY' = UPI_SECRET_KEY
       /\ DATA_ENC_KEY' = DATA_ENC_KEY
       /\ \A x \in StringsBeside(c) :
            ChildRowsRead(child_upis', x) = ChildRowsRead(child_upis, x)]_vars

\* a 14-character string over A-Z/0-9 with a non-digit in the payment-index window
NonDigitWindow(upi) ==
  /\ validate_upi_format(upi)
  /\ \E i \in (NAMESPACE_LENGTH + 1)..(NAMESPACE_LENGTH + PAYMENT_INDEX_LENGTH) : upi[i] \notin Digits

\* C30: for a 14-character string over A-Z/0-9 with a non-digit in characters 3
\* and 4, parse_upi fails with its format error (ValueError, which verify_upi
\* turns into False), and a verified caller's resolve of such a string that no
\* child binding holds ends FORMAT_ERROR (400) in the decoding step, with no
\* organization or account looked up and no signature computed.
C30_NonDigitIndexFormatError ==
  (ResolvedFor /\ NonDigitWindow(resp.upi)) =>
    /\ ~ParseResult(resp.upi).ok
    /\ \A u \in UserIds : ~verify_upi(resp.upi, u)
    /\ ChildrenHolding(resp.upi) = {} =>
         /\ resp.outcome = "FORMAT_ERROR"
         /\ resp.http = 400
         /\ resp.branch = "primary"
         /\ resp.org = 0
         /\ resp.account = 0
         /\ ~resp.check.done

\* C30 witness: a verified caller has resolved a copy of a stored identifier
\* whose payment index was replaced by a letter and a digit, and got the
\* format error of the decoding step
C30_Witness ==
  /\ ResolvedFor
  /\ resp.outcome = "FORMAT_ERROR"
  /\ resp.branch = "primary"
  /\ resp.upi[NAMESPACE_LENGTH + 1] \notin Digits
  /\ resp.upi[NAMESPACE_LENGTH + 2] \in Digits
  /\ \E x \in IssuedStrings : resp.upi \in WindowTampered(x)

\* the stored ciphertexts: account, field
StoredBlobs == {af \in AccountIdsNow \X sensitive_fields : af[2] \in DOMAIN payment_accounts[af[1]].enc}
BlobOf(af) == payment_accounts[af[1]].enc[af[2]]

RailLocked(account_id) ==
  \/ payment_account_has_child_upis(account_id)
  \/ payment_account_used_for_org_upi(account_id)

\* C32: once a payment account backs an identifier, no update_account request
\* with a rail field is answered other than by a conflict and the stored
\* coordinates of the account stay as they are, however update_account and the
\* issuance of child identifiers interleave
C32_RailFieldsLocked ==
  [][\A a \in AccountIdsNow :
       RailLocked(a) =>
         /\ payment_accounts'[a].enc = payment_accounts[a].enc
         /\ (resp'.op = "update_account" /\ resp # resp' /\ resp'.account = a
                /\ resp'.fields \cap sensitive_fields # {})
              => resp'.outcome = "CONFLICT"]_vars

\* C33: for every key whose rule has limit > 0 and window_seconds > 0, at most
\* limit calls of check_rate_limit with one window id are allowed, whatever the
\* interleaving of the callers and the calls for other keys
C33_AtMostLimitPerWindow ==
  \A key \in RateKeys, w \in WindowIds :
    (RuleOf(key).limit > 0 /\ RuleOf(key).window_seconds > 0)
      => allowed[<<key, w>>] <= RuleOf(key).limit

\* the window of the key's own rule that holds second at
OwnWindow(key, at) == at \div RuleOf(key).window_seconds

\* C34: a call of check never removes a bucket whose window, counted with the
\* window length of the bucket's own rule, is the current or the previous one
\* at the time of the call, whatever rule the call itself passes
C34_PruneKeepsCurrentBuckets ==
  [][\A t \in Threads :
       (calls[t].pc = "lock" /\ calls'[t].pc = "returned")
         => \A key \in BucketKeys(_buckets) :
              _buckets[key][1] >= OwnWindow(key, calls[t].at) - 1
                => key \in BucketKeys(_buckets')]_vars

\* C35: at most one verification is granted per OTP record, by verify_otp and
\* login_verify together, whether the verifications follow one another or overlap
C35_OtpAcceptedOnce ==
  \A o \in OtpIds : granted[o] <= 1

\* the rows of one onboarding: organization o, session s of o, an identity
\* verification of s, the payment account a of o recorded on s, and, unless the
\* call is pending, the identifier on o
OnboardingRows(orgs, sess, idvs, accts, o, s, a) ==
  /\ o \in DOMAIN orgs
  /\ s \in DOMAIN sess
  /\ sess[s].org_id = o
  /\ sess[s].payment_account_id = a
  /\ \E i \in DOMAIN idvs : idvs[i].session_id = s /\ idvs[i].org_id = o
  /\ a \in DOMAIN accts
  /\ accts[a].org_id = o
  /\ \/ sess[s].state = "PENDING_CALL" /\ orgs[o].upi = NoUpi
     \/ sess[s].state = "VERIFIED" /\ orgs[o].upi # NoUpi

\* C36: a complete_onboarding_tx that raises leaves none of the rows it wrote
\* (organization, session, identity verification, payment account, identifier)
\* in the store, and one that returns leaves all of them
C36_OnboardingAtomic ==
  [][/\ (resp'.op = "complete_onboarding_tx" /\ resp' # resp) =>
          /\ resp'.org_id \notin DOMAIN organizations'
          /\ resp'.session_id \notin DOMAIN onboarding_sessions'
          /\ resp'.payment_account_id \notin DOMAIN payment_accounts'
          /\ \A i \in DOMAIN identity_verifications' :
                identity_verifications'[i].session_id # resp'.session_id
          /\ organizations' = organizations
          /\ saved_order' = saved_order
     /\ (Len(organizations') > Len(organizations)) =>
          OnboardingRows(organizations', onboarding_sessions', identity_verifications',
                         payment_accounts', Len(organizations) + 1,
                         Len(onboarding_sessions) + 1, Len(payment_accounts) + 1)]_vars

\* a transaction raised after it had written organization, session, identity
\* verification and payment account
C36_Witness ==
  /\ resp.op = "complete_onboarding_tx"
  /\ resp.raised_at \in {"master_upi", "generate_upi"}
  /\ Len(organizations) > 0

\* a later request that presents the token, as bearer or as cookie, is authenticated
Authenticates(token) ==
  \/ get_current_user(token, 0).user # 0
  \/ get_current_user(0, token).user # 0

\* C37: after a logout request that succeeded, the token that authenticated it,
\* presented as bearer header or as cookie, authenticates no request
C37_LogoutInvalidates ==
  (resp.op = "logout" /\ resp.http = 200) => ~Authenticates(resp.token)

\* a response without the identity of the caller it was given to
Anonymous(r) == [r EXCEPT !.caller = 0]

SignedFor(upi, owner, payment_index) ==
  \E core \in CoreSegments \cup ChildCoreSegments :
    upi = generate_upi(CoreId(core), payment_index, owner)

\* C39: in every reachable state each child binding references a payment account
\* of the binding's own organization, and its identifier is the one signed with
\* the namespace of that organization's owner and the payment index of the
\* referenced account; create_child_upi never binds an identifier to an account
\* of another organization.
C39_ChildBoundWithinOrganization ==
  \A c \in ChildIdsNow :
    LET account == child_upis[c].payment_account_id
        org == child_upis[c].org_id
    IN  /\ account \in AccountIdsNow
        /\ org \in OrgIdsNow
        /\ payment_accounts[account].org_id = org
        /\ SignedFor(child_upis[c].upi, organizations[org].user_id,
                     payment_accounts[account].payment_index)

\* C39 witness: two organizations of different owners hold payment accounts, and
\* a child identifier is bound to the second account of one of them, signed
\* with its owner's namespace and the payment index 2
C39_Witness ==
  /\ resp.op = "create_child_upi"
  /\ resp.outcome = "CREATED"
  /\ \E c \in ChildIdsNow, a \in AccountIdsNow :
       /\ c = resp.child
       /\ child_upis[c].payment_account_id = a
       /\ payment_accounts[a].payment_index = 2
       /\ payment_accounts[a].org_id = child_upis[c].org_id
       /\ child_upis[c].upi[3] = Ch0 /\ child_upis[c].upi[4] = Ch0 + 2
       /\ \E b \in AccountIdsNow :
            /\ payment_accounts[b].org_id # payment_accounts[a].org_id
            /\ organizations[payment_accounts[b].org_id].user_id
                 # organizations[payment_accounts[a].org_id].user_id
====
